---- MODULE Spec2Model ----
(***************************************************************************)
(* Table-structure recovery and column normalisation of the OCR pipeline:  *)
(* extract_final_table.py (structure detector, table repairer, column      *)
(* reorderer), batch_ocr_processor.py (per-document pipeline, flattening)  *)
(* and column_normalizer.py (corpus-wide normaliser).                      *)
(*                                                                         *)
(* Python strings are sequences of characters.  A character is a TLA+      *)
(* string: a printable ASCII character stands for itself, "\n" is the line *)
(* feed, and any other character is written by its code point, "U+05EA".   *)
(* Python lists are sequences; list index i (0-based) is element i + 1.    *)
(***************************************************************************)
EXTENDS Integers, Sequences, FiniteSets, TLC

VARIABLES
    pc,               \* position of the operation under analysis
    files,            \* the documents main() still has to process
    tables,           \* the list read from <name>_tables.json
    headers,          \* header row handed to the column reorder
    rows,             \* the row list (table['rows'])
    header_row_idx,   \* index returned by detect_table_structure
    table,            \* tables[0] as read by extract_final_table
    result,           \* what the operation returned
    processed_files,  \* results collected by main()
    all_rows,         \* corpus records built by create_excel_output
    df,               \* DataFrame handed to normalize_dataframe
    df_normalized,    \* normalize_dataframe's working DataFrame
    matches,          \* canonical name -> matched columns (find_matching_columns)
    result_folders    \* files of json_result, txt_result and the working directory

vars == <<pc, files, tables, headers, rows, header_row_idx, table, result,
          processed_files, all_rows, df, df_normalized, matches, result_folders>>

\* Python's None, where a variable otherwise holds a record
None == [kind |-> "None"]

\* the result folders before any file was processed: json_result holds no
\* <name>-<hash>_tables.json (json_tables) and no <name>-<hash>_final_table.json
\* (json_final), txt_result no <name>-<hash>_ocr_results.txt (txt), the working
\* directory no <stem>_tables.json (cwd_tables) and no <stem>_ocr_results.txt
\* (cwd_txt); ocr_runs lists the files sample_analyze_read.py was launched for
NoResultFiles ==
    [json_tables |-> <<>>, json_final |-> <<>>, txt |-> {},
     cwd_tables |-> <<>>, cwd_txt |-> {}, ocr_runs |-> <<>>]

(***************************************************************************)
(* Characters and the str methods the code uses.                           *)
(***************************************************************************)
Digits == {"0", "1", "2", "3", "4", "5", "6", "7", "8", "9"}

UpperChars == <<"A", "B", "C", "D", "E", "F", "G", "H", "I", "J", "K", "L", "M",
                "N", "O", "P", "Q", "R", "S", "T", "U", "V", "W", "X", "Y", "Z">>

LowerChars == <<"a", "b", "c", "d", "e", "f", "g", "h", "i", "j", "k", "l", "m",
                "n", "o", "p", "q", "r", "s", "t", "u", "v", "w", "x", "y", "z">>

\* U+0590..U+05FF as far as the inputs use it: the letters alef..tav with the
\* final forms, and the punctuation geresh and gershayim.
HebrewChars ==
    {"U+05D0", "U+05D1", "U+05D2", "U+05D3", "U+05D4", "U+05D5", "U+05D6",
     "U+05D7", "U+05D8", "U+05D9", "U+05DA", "U+05DB", "U+05DC", "U+05DD",
     "U+05DE", "U+05DF", "U+05E0", "U+05E1", "U+05E2", "U+05E3", "U+05E4",
     "U+05E5", "U+05E6", "U+05E7", "U+05E8", "U+05E9", "U+05EA",
     "U+05F3", "U+05F4"}

HebrewLetters == HebrewChars \ {"U+05F3", "U+05F4"}

\* str.isspace() characters among the ones the model uses (U+00A0 is a space).
Whitespace == {" ", "\n", "\t", "U+00A0"}

Range(s) == {s[i] : i \in 1..Len(s)}

UpperSet == Range(UpperChars)

AsciiLetters == UpperSet \cup Range(LowerChars)

LowerOf == [c \in UpperSet |-> LowerChars[CHOOSE i \in 1..Len(UpperChars) : UpperChars[i] = c]]

\* str.lower() of one character: only A-Z change.
LowerCh(c) == IF c \in UpperSet THEN LowerOf[c] ELSE c

\* str.lower()
Lower(s) == [i \in 1..Len(s) |-> LowerCh(s[i])]

\* str.strip(): drop leading and trailing whitespace.
RECURSIVE LStrip(_)
LStrip(s) ==
    IF s # <<>> /\ Head(s) \in Whitespace THEN LStrip(Tail(s)) ELSE s

RECURSIVE RStrip(_)
RStrip(s) ==
    IF s # <<>> /\ s[Len(s)] \in Whitespace
    THEN RStrip(SubSeq(s, 1, Len(s) - 1))
    ELSE s

Strip(s) == RStrip(LStrip(s))

\* Python's `sub in s`
Contains(sub, s) ==
    \E i \in 0..(Len(s) - Len(sub)) : SubSeq(s, i + 1, i + Len(sub)) = sub

\* any(k in s for k in keywords)
ContainsAny(keywords, s) == \E k \in keywords : Contains(k, s)

\* str.isdigit(): non-empty and every character a digit.
IsDigit(s) == s # <<>> /\ \A i \in 1..Len(s) : s[i] \in Digits

\* Python's truth value of a string
Truthy(s) == s # <<>>

\* list index with 0-based i
At(seq, i) == seq[i + 1]

RECURSIVE SelectIdx(_, _)
SelectIdx(n, keep) ==
    \* the 0-based indices i < n with keep[i], ascending
    IF n = 0 THEN <<>>
    ELSE IF (n - 1) \in keep THEN Append(SelectIdx(n - 1, keep), n - 1)
         ELSE SelectIdx(n - 1, keep)

(***************************************************************************)
(* Column Reorderer: extract_final_table, lines 673-709.                   *)
(* The keyword literals are the ones the source file holds: its right-to-  *)
(* left keywords are stored as the characters U+00D7 U+00AA ... and not as *)
(* the Hebrew letters U+05EA ...                                           *)
(***************************************************************************)
kw_id == {<<"U+00D7", "U+00AA", "U+00D7", "U+2013">>, <<"i", "d">>}

kw_first ==
    {<<"U+00D7", "U+00A9", "U+00D7", " ", "U+00D7", "U+00A4", "U+00D7", "U+00A8",
       "U+00D7", "U+02DC", "U+00D7", "U+2122">>,
     <<"f", "i", "r", "s", "t">>}

kw_last ==
    {<<"U+00D7", "U+00A9", "U+00D7", " ", "U+00D7", "U+00D7", "U+00A9", "U+00D7",
       "U+00A4", "U+00D7", "U+2014", "U+00D7", "U+201D">>,
     <<"l", "a", "s", "t">>,
     <<"s", "u", "r", "n", "a", "m", "e">>}

\* the branch of the if/elif chain that header takes
header_role(header) ==
    LET h == Strip(Lower(header))
    IN  IF ContainsAny(kw_id, h) THEN "id"
        ELSE IF ContainsAny(kw_first, h) THEN "fname"
        ELSE IF ContainsAny(kw_last, h) THEN "lname"
        ELSE "other"

\* the value a role variable holds after the loop: every matching header
\* assigns it, so the last assignment stays
\* (<<>> for None, <<i>> for column i)
role_col(hdrs, role) ==
    LET hits == {i \in 0..(Len(hdrs) - 1) : header_role(At(hdrs, i)) = role}
    IN  IF hits = {} THEN <<>>
        ELSE <<CHOOSE i \in hits : \A j \in hits : j <= i>>

id_col(hdrs) == role_col(hdrs, "id")
fname_col(hdrs) == role_col(hdrs, "fname")
lname_col(hdrs) == role_col(hdrs, "lname")

\* (a variant that lists the First Name column before the ID column)
new_order_first_name_first(hdrs) ==
    LET first == fname_col(hdrs) \o id_col(hdrs) \o lname_col(hdrs)
        taken == Range(first)
    IN  first \o SelectIdx(Len(hdrs), (0..(Len(hdrs) - 1)) \ taken)

new_order(hdrs) ==
    LET first == id_col(hdrs) \o fname_col(hdrs) \o lname_col(hdrs)
        taken == Range(first)
    IN  first \o SelectIdx(Len(hdrs), (0..(Len(hdrs) - 1)) \ taken)

\* [row[i] if i < len(row) else '' for i in new_order]
project_row(row, order) ==
    [k \in 1..Len(order) |-> IF order[k] < Len(row) THEN At(row, order[k]) ELSE <<>>]

\* (a variant that leaves the first row out)
reordered_rows_without_first(order, rs) ==
    [r \in 1..(Len(rs) - 1) |-> project_row(rs[r + 1], order)]

reordered_rows(order, rs) == [r \in 1..Len(rs) |-> project_row(rs[r], order)]

\* metadata.reordered_headers: [headers[i] for i in new_order]
reordered_headers(hdrs, order) == [k \in 1..Len(order) |-> At(hdrs, order[k])]


(***************************************************************************)
(* Inputs of the column reorder.                                           *)
(***************************************************************************)
MaxCols == 3
MaxRows == 2

H_ID == <<"I", "D">>
H_IdNo == <<"I", "d", " ", "N", "o">>
H_First == <<"F", "i", "r", "s", "t", " ", "N", "a", "m", "e">>
H_Last == <<"L", "a", "s", "t", " ", "N", "a", "m", "e">>
H_Surname == <<"S", "u", "r", "n", "a", "m", "e">>
H_Age == <<"A", "g", "e">>
\* the header row of help.py, lines 68-69, in its own characters
H_he_tz == <<"U+05EA", "U+05D6">>
H_he_first == <<"U+05E9", "U+05DD", " ", "U+05E4", "U+05E8", "U+05D8", "U+05D9">>
H_he_last == <<"U+05E9", "U+05DD", " ", "U+05DE", "U+05E9", "U+05E4", "U+05D7", "U+05D4">>

HeaderPool == {H_ID, H_IdNo, H_First, H_Last, H_Surname, H_Age}

\* cell c (1-based) of every data row of the reorder's inputs: "v1", "v2", ...
DigitChars == <<"1", "2", "3", "4", "5", "6", "7", "8", "9">>
DataCell(c) == <<"v", DigitChars[c]>>
DataRow(n) == [c \in 1..n |-> DataCell(c)]

SeqsUpTo(S, n) == UNION {[1..k -> S] : k \in 0..n}

ReorderHeaders == SeqsUpTo(HeaderPool, MaxCols) \cup {<<H_he_first, H_he_last, H_he_tz>>}

\* data rows shorter than, as long as and longer than the header row
ReorderRows == SeqsUpTo({DataRow(n) : n \in 0..(MaxCols + 1)}, MaxRows)

(***************************************************************************)
(* Specification of the column reorder: the reorder is applied to a header *)
(* row and the row list, then again to what it returned.                   *)
(***************************************************************************)
\* lines 673-723: the reorder and the fields of the result it fills
reorder_result(hdrs, rs) ==
    LET order == new_order(hdrs)
    IN  [kind |-> "table",
         new_order |-> order,
         rows |-> reordered_rows(order, rs),
         reordered_headers |-> reordered_headers(hdrs, order)]

InitReorder ==
    /\ pc = "reorder"
    /\ headers \in ReorderHeaders
    /\ rows \in ReorderRows
    /\ table = [headers |-> headers, rows |-> rows]
    /\ result = None
    /\ header_row_idx = 0
    /\ files = <<>>
    /\ tables = <<>>
    /\ processed_files = <<>>
    /\ all_rows = <<>>
    /\ df = None
    /\ df_normalized = None
    /\ matches = <<>>
    /\ result_folders = NoResultFiles

Reorder ==
    /\ pc = "reorder"
    /\ result' = reorder_result(headers, rows)
    /\ pc' = "reordered"
    /\ UNCHANGED <<files, tables, headers, rows, header_row_idx, table,
                   processed_files, all_rows, df, df_normalized, matches,
                   result_folders>>

\* the reorder applied to the headers and rows it has just returned
ReorderAgain ==
    /\ pc = "reordered"
    /\ headers' = result.reordered_headers
    /\ rows' = result.rows
    /\ result' = reorder_result(result.reordered_headers, result.rows)
    /\ pc' = "reordered_twice"
    /\ UNCHANGED <<files, tables, header_row_idx, table, processed_files, all_rows,
                   df, df_normalized, matches,
                   result_folders>>

NextReorder == Reorder \/ ReorderAgain

SpecReorder == InitReorder /\ [][NextReorder]_vars


(***************************************************************************)
(* Claims about the column reorder (checked under SpecReorder).            *)
(***************************************************************************)
Roles == <<"id", "fname", "lname">>

\* the 0-based columns of hdrs that take the branch of `role`
RoleHits(hdrs, role) == {i \in 0..(Len(hdrs) - 1) : header_role(At(hdrs, i)) = role}

\* the roles some header of hdrs takes, in the order ID, First Name, Last Name
PresentRoles(hdrs) == SelectSeq(Roles, LAMBDA r : RoleHits(hdrs, r) # {})

\* order lists the role columns first (ID, First Name, Last Name, each if some
\* header has the role), then every other column of hdrs in ascending order
RolesThenRest(hdrs, order) ==
    LET present == PresentRoles(hdrs)
        k == Len(present)
    IN  /\ Len(order) = Len(hdrs)
        /\ {order[p] : p \in 1..Len(order)} = 0..(Len(hdrs) - 1)
        /\ \A p \in 1..k : order[p] \in RoleHits(hdrs, present[p])
        /\ \A p, q \in (k + 1)..Len(order) : p < q => order[p] < order[q]

\* out is rs projected onto order, with '' where a row is too short
ProjectedOnto(rs, order, out) ==
    /\ Len(out) = Len(rs)
    /\ \A r \in 1..Len(rs) :
          /\ Len(out[r]) = Len(order)
          /\ \A p \in 1..Len(order) :
                out[r][p] = IF order[p] < Len(rs[r]) THEN rs[r][order[p] + 1] ELSE <<>>

\* C1: for any header row and any rows, the reorder of extract_final_table
\* returns (it raises nothing) the columns in the order [ID column, First Name
\* column, Last Name column, each if a header has the role, then every other
\* column in its original relative order], and every row projected onto that
\* order with '' at each position the row is too short to supply.
C1_ReorderOrderAndProjection ==
    pc = "reordered" =>
        /\ result.kind = "table"
        /\ RolesThenRest(table.headers, result.new_order)
        /\ ProjectedOnto(table.rows, result.new_order, result.rows)
        /\ result.reordered_headers =
              [p \in 1..Len(table.headers) |-> At(table.headers, result.new_order[p])]

\* a three-column header row whose ID column moved to the front, with a row too
\* short for its columns, which got '' in the output
C1_Witness ==
    /\ pc = "reordered"
    /\ Len(table.headers) = 3
    /\ PresentRoles(table.headers) = Roles
    /\ result.new_order # <<0, 1, 2>>
    /\ \E r \in 1..Len(table.rows) :
          /\ Len(table.rows[r]) = 2
          /\ \E p \in 1..3 : result.rows[r][p] = <<>>

\* C2 (as claimed): when several headers take the same role, the role's column
\* in the new order is the first of them from the left.
C2_FirstMatchWins ==
    pc = "reordered" =>
        LET present == PresentRoles(table.headers)
        IN  \A p \in 1..Len(present) :
                \A i \in RoleHits(table.headers, present[p]) : result.new_order[p] <= i

\* C3 (as claimed): the reorder applied to the headers and rows it returned
\* returns the same headers and the same rows, also when two or more headers
\* take the same role.
C3_ReorderIdempotent ==
    pc = "reordered_twice" =>
        /\ result.reordered_headers = headers
        /\ result.rows = rows


(***************************************************************************)
(* Structure Detector: the cell and row classifiers of                     *)
(* extract_final_table.py, lines 12-97 and 179-215.                        *)
(***************************************************************************)
\* characters the regular-expression class \w accepts, among those in use
WordChars == AsciiLetters \cup Digits \cup HebrewLetters \cup {"_", "U+00AA"}

AllIn(s, from, to, class) == \A i \in from..to : s[i] \in class

\* s without the characters of `drop` (chained str.replace(c, ''))
RECURSIVE Without(_, _)
Without(s, drop) ==
    IF s = <<>> THEN <<>>
    ELSE IF Head(s) \in drop THEN Without(Tail(s), drop)
         ELSE <<Head(s)>> \o Without(Tail(s), drop)

\* length of the longest prefix of s, from position `from`, inside `class`
RECURSIVE RunLen(_, _, _)
RunLen(s, from, class) ==
    IF from <= Len(s) /\ s[from] \in class THEN 1 + RunLen(s, from + 1, class) ELSE 0

excel_ui_indicators ==
    {<<"f", "o", "r", "m", "u", "l", "a", " ", "b", "a", "r">>,
     <<"s", "e", "l", "e", "c", "t", "e", "d">>,
     <<":", "s", "e", "l", "e", "c", "t", "e", "d", ":">>,
     <<"u", "n", "s", "e", "l", "e", "c", "t", "e", "d">>,
     <<":", "u", "n", "s", "e", "l", "e", "c", "t", "e", "d", ":">>,
     <<"c", "o", "l", "u", "m", "n", "_">>,
     <<"r", "o", "w", "_">>,
     <<"c", "e", "l", "l", "_">>,
     <<"s", "h", "e", "e", "t">>,
     <<"w", "o", "r", "k", "b", "o", "o", "k">>}

\* one cell of is_excel_ui_row's loop
is_excel_ui_cell(cell) ==
    LET cell_str == Strip(Lower(cell))
    IN  \/ ContainsAny(excel_ui_indicators, cell_str)
        \/ (Len(cell_str) = 1 /\ cell_str[1] \in Range(LowerChars))

is_excel_ui_row(row) == \E i \in 1..Len(row) : is_excel_ui_cell(row[i])

header_indicators ==
    {<<"i", "d">>,
     <<"U+00D7", "U+00AA", "U+00D7", "U+2013">>,
     <<"U+00D7", "U+00AA", ".", "U+00D7", "U+2013">>,
     <<"U+00D7", "U+00D7", "U+00A1", "U+00D7", "U+00A4", "U+00D7", "U+00A8">>,
     <<"f", "i", "r", "s", "t">>,
     <<"l", "a", "s", "t">>,
     <<"U+00D7", "U+00A9", "U+00D7", " ", "U+00D7", "U+00A4", "U+00D7", "U+00A8",
       "U+00D7", "U+02DC", "U+00D7", "U+2122">>,
     <<"U+00D7", "U+00A9", "U+00D7", " ", "U+00D7", "U+00D7", "U+00A9", "U+00D7",
       "U+00A4", "U+00D7", "U+2014", "U+00D7", "U+201D">>,
     <<"n", "a", "m", "e">>,
     <<"e", "m", "p", "l", "o", "y", "e", "e">>,
     <<"U+00D7", "U+00A2", "U+00D7", "U+2022", "U+00D7", "U+2018", "U+00D7", "U+201C">>,
     <<"U+00D7", "U+2014", "U+00D7", "U+00AA", "U+00D7", "U+2122", "U+00D7", "U+00D7",
       "U+201D">>,
     <<"s", "i", "g", "n", "a", "t", "u", "r", "e">>}

\* Python's floor division for non-negative operands
FloorDiv(a, b) == a \div b

Max(a, b) == IF a >= b THEN a ELSE b
Min(a, b) == IF a <= b THEN a ELSE b

is_header_row(row) ==
    IF row = <<>> THEN FALSE
    ELSE IF is_excel_ui_row(row) THEN FALSE
    ELSE LET cell_str(i) == Strip(Lower(row[i]))
             is_valid(i) == ContainsAny(header_indicators, cell_str(i))
             \* a long numeric cell ends the loop with False
             long_number == \E i \in 1..Len(row) :
                               /\ ~is_valid(i)
                               /\ Len(cell_str(i)) > 8
                               /\ IsDigit(cell_str(i))
             valid_headers == Cardinality({i \in 1..Len(row) : is_valid(i)})
         IN  ~long_number /\ valid_headers >= Max(1, FloorDiv(Len(row), 2))

\* re.match(r'^\d{2,3}\s*\d{5,6}$', s)
match_grouped_id(s) ==
    \E a \in 2..3 : \E b \in 5..6 :
        /\ Len(s) >= a + b
        /\ AllIn(s, 1, a, Digits)
        /\ AllIn(s, a + 1, Len(s) - b, Whitespace)
        /\ AllIn(s, Len(s) - b + 1, Len(s), Digits)

\* re.match(r'^\d{lo,hi}$', s)
match_digits(s, lo, hi) == Len(s) >= lo /\ Len(s) <= hi /\ AllIn(s, 1, Len(s), Digits)

is_likely_id(value) ==
    IF ~Truthy(value) THEN FALSE
    ELSE LET val_str == Strip(value)
             bare == Without(val_str, {"-", "/", " "})
         IN  \/ match_grouped_id(val_str)
             \/ match_digits(val_str, 9, 9)
             \/ match_digits(val_str, 8, 10)
             \/ (IsDigit(bare) /\ Len(bare) >= 6)

\* re.search(r'[\u0590-\u05FFa-zA-Z\s]+\d{8,}', text.strip())
contains_embedded_id(text) ==
    IF ~Truthy(text) THEN FALSE
    ELSE LET text_str == Strip(text)
         IN  \E i \in 1..(Len(text_str) - 8) :
                /\ text_str[i] \in (HebrewChars \cup AsciiLetters \cup Whitespace)
                /\ AllIn(text_str, i + 1, i + 8, Digits)

header_words ==
    {<<"i", "d">>,
     <<"n", "a", "m", "e">>,
     <<"U+00D7", "U+00A9", "U+00D7">>,
     <<"U+00D7", "U+00AA", ".", "U+00D7", "U+2013">>,
     <<"U+00D7", "U+00AA", "U+00D7", "U+2013">>,
     <<"U+00D7", "U+00AA", "U+00D7", "U+00B4", "U+00D7", "U+2013">>,
     <<"U+00D7", "U+00D7", "U+00A1", "U+00D7", "U+00A4", "U+00D7", "U+00A8">>,
     <<"U+00D7", "U+2013", "U+00D7", "U+201D", "U+00D7", "U+2022", "U+00D7", "U+00AA">>,
     <<"f", "i", "r", "s", "t">>,
     <<"l", "a", "s", "t">>,
     <<"U+00D7", "U+00AA", "U+00D7", "U+00A4", "U+00D7", "U+00A7", "U+00D7", "U+2122",
       "U+00D7", "U+201C">>,
     <<"p", "o", "s", "i", "t", "i", "o", "n">>,
     <<"U+00D7", "U+00D7", "U+00A9", "U+00D7", "U+00A4", "U+00D7", "U+2014", "U+00D7",
       "U+201D">>,
     <<"U+00D7", "U+00D7", "U+2019", "U+00D7", "U+2022", "U+00D7", "U+00A8", "U+00D7",
       "U+2122", "U+00D7">>}

has_header_like_content(row) ==
    \E i \in 1..Len(row) :
        Truthy(row[i]) /\ ContainsAny(header_words, Lower(Strip(row[i])))

\* re.match(r'[\u05d8][\u05f4\u05f3]\d+', s)
match_title_abbreviation(s) ==
    Len(s) >= 3 /\ s[1] = "U+05D8" /\ s[2] \in {"U+05F4", "U+05F3"} /\ s[3] \in Digits

\* re.match(r'\w+\s+\w+\s+\w+', s)
match_three_words(s) ==
    LET w1 == RunLen(s, 1, WordChars)
        s1 == RunLen(s, 1 + w1, Whitespace)
        w2 == RunLen(s, 1 + w1 + s1, WordChars)
        s2 == RunLen(s, 1 + w1 + s1 + w2, Whitespace)
        w3 == RunLen(s, 1 + w1 + s1 + w2 + s2, WordChars)
    IN  w1 >= 1 /\ s1 >= 1 /\ w2 >= 1 /\ s2 >= 1 /\ w3 >= 1

\* re.match(r'\d{1,2}\.\d{1,2}\.\d{2,4}', s)
match_dotted_date(s) ==
    \E a \in 1..2 : \E b \in 1..2 :
        /\ Len(s) >= a + b + 4
        /\ AllIn(s, 1, a, Digits)
        /\ s[a + 1] = "."
        /\ AllIn(s, a + 2, a + 1 + b, Digits)
        /\ s[a + b + 2] = "."
        /\ AllIn(s, a + b + 3, a + b + 4, Digits)

is_title_or_metadata_row(row, max_cols) ==
    IF row = <<>> THEN FALSE
    ELSE LET non_empty_count ==
                 Cardinality({i \in 1..Len(row) : Truthy(row[i]) /\ Truthy(Strip(row[i]))})
         IN  \/ (non_empty_count <= 1 /\ Len(row) < max_cols)
             \/ \E i \in 1..Len(row) :
                   /\ Truthy(row[i])
                   /\ Truthy(Strip(row[i]))
                   /\ LET val_str == Strip(row[i])
                      IN  \/ match_title_abbreviation(val_str)
                          \/ match_three_words(val_str)
                          \/ match_dotted_date(val_str)


(***************************************************************************)
(* detect_table_structure, lines 99-324.  It returns the pair              *)
(* (index, headers); the record below also carries the row list as the     *)
(* function leaves it, because the mismatch repair rewrites it in place    *)
(* (rows[:] = ...).                                                        *)
(***************************************************************************)
S_ID == <<"I", "D">>
S_FirstName == <<"F", "i", "r", "s", "t", " ", "N", "a", "m", "e">>
S_LastName == <<"L", "a", "s", "t", " ", "N", "a", "m", "e">>
S_Name == <<"N", "a", "m", "e">>
S_RowNumber == <<"R", "o", "w", " ", "N", "u", "m", "b", "e", "r">>
S_Address == <<"A", "d", "d", "r", "e", "s", "s">>
S_Other == <<"O", "t", "h", "e", "r">>

DecimalDigits == <<"0", "1", "2", "3", "4", "5", "6", "7", "8", "9">>

\* str(n) for 0 <= n
RECURSIVE IntToStr(_)
IntToStr(n) ==
    IF n < 10 THEN <<DecimalDigits[n + 1]>>
    ELSE IntToStr(n \div 10) \o <<DecimalDigits[(n % 10) + 1]>>

\* f'Column_{n}'
ColumnN(n) == <<"C", "o", "l", "u", "m", "n", "_">> \o IntToStr(n)

\* the cell is counted as empty / ID / text by the loop of lines 142-150
cell_kind(cell) ==
    IF ~Truthy(cell) \/ Strip(cell) = <<>> THEN "empty"
    ELSE IF is_likely_id(cell) THEN "id"
    ELSE IF Truthy(Strip(cell)) /\ ~IsDigit(cell) THEN "text"
    ELSE "none"

\* number of the first six rows of all_data_rows whose cell col_idx is of `kind`
kind_count(all_data_rows, col_idx, kind) ==
    Cardinality({r \in 1..Min(6, Len(all_data_rows)) :
                    /\ col_idx < Len(all_data_rows[r])
                    /\ cell_kind(At(all_data_rows[r], col_idx)) = kind})

\* corrected_headers after the columns 0..n-1 have been appended
RECURSIVE corrected_headers(_, _)
corrected_headers(all_data_rows, n) ==
    IF n = 0 THEN <<>>
    ELSE LET before == corrected_headers(all_data_rows, n - 1)
             col_idx == n - 1
             name == IF kind_count(all_data_rows, col_idx, "id") >= 3 THEN S_ID
                     ELSE IF kind_count(all_data_rows, col_idx, "empty") >= 3 THEN <<>>
                     ELSE IF kind_count(all_data_rows, col_idx, "text") >= 3
                          THEN IF col_idx = 0 THEN S_FirstName
                               ELSE IF S_FirstName \in Range(before) THEN S_LastName
                               ELSE S_Name
                     ELSE ColumnN(col_idx + 1)
         IN  Append(before, name)

\* padded_first_row: row padded with '' to n cells
PadTo(row, n) == row \o [i \in 1..(n - Len(row)) |-> <<>>]

\* (a variant that rebuilds the rows in a copy and leaves the caller's list alone)
mismatch_repair_on_a_copy(rs) ==
    LET data_cols == Len(rs[2])
        first_row_has_embedded_ids == \E i \in 1..Len(rs[1]) : contains_embedded_id(rs[1][i])
        all_data_rows == IF first_row_has_embedded_ids
                         THEN <<PadTo(rs[1], data_cols)>> \o Tail(rs)
                         ELSE Tail(rs)
        corrected == corrected_headers(all_data_rows, data_cols)
    IN  [idx |-> 0, headers |-> corrected, rows |-> rs]

\* lines 114-172: data rows wider than row 0
mismatch_repair(rs) ==
    LET data_cols == Len(rs[2])
        first_row_has_embedded_ids == \E i \in 1..Len(rs[1]) : contains_embedded_id(rs[1][i])
        all_data_rows == IF first_row_has_embedded_ids
                         THEN <<PadTo(rs[1], data_cols)>> \o Tail(rs)
                         ELSE Tail(rs)
        corrected == corrected_headers(all_data_rows, data_cols)
    IN  [idx |-> 0, headers |-> corrected, rows |-> <<corrected>> \o all_data_rows]

\* Counter(row_lengths).most_common(1)[0][0]: the most frequent length of
\* rows[1:], the one met first among equally frequent ones
most_common(lengths) ==
    LET count(v) == Cardinality({i \in 1..Len(lengths) : lengths[i] = v})
        first(v) == CHOOSE i \in 1..Len(lengths) :
                        lengths[i] = v /\ \A j \in 1..(i - 1) : lengths[j] # v
        best == CHOOSE i \in 1..Len(lengths) :
                    /\ first(lengths[i]) = i
                    /\ \A j \in 1..Len(lengths) :
                          \/ count(lengths[j]) < count(lengths[i])
                          \/ (count(lengths[j]) = count(lengths[i]) /\ first(lengths[j]) >= i)
    IN  lengths[best]

most_common_length(rs) ==
    IF Len(rs) > 3 THEN most_common([i \in 1..(Len(rs) - 1) |-> Len(rs[i + 1])])
    ELSE Len(rs[2])

\* lines 254-267
synthetic_header(col_idx) ==
    IF col_idx = 0 THEN S_RowNumber
    ELSE IF col_idx = 1 THEN S_LastName
    ELSE IF col_idx = 2 THEN S_FirstName
    ELSE IF col_idx = 3 THEN S_Address
    ELSE IF col_idx = 4 THEN S_ID
    ELSE ColumnN(col_idx + 1)

synthetic_headers(n) == [k \in 1..n |-> synthetic_header(k - 1)]

row_has_ids(row) == \E i \in 1..Len(row) : is_likely_id(row[i])

\* lines 243-250: the candidate rows 1..4 that qualify as the real header row
header_candidates(rs, mcl) ==
    {i \in 1..(Min(5, Len(rs)) - 1) :
        /\ Len(At(rs, i)) >= mcl
        /\ has_header_like_content(At(rs, i))
        /\ ~row_has_ids(At(rs, i))}

\* lines 238-269
title_branch(rs, mcl) ==
    LET found == header_candidates(rs, mcl)
    IN  IF found # {}
        THEN LET i == CHOOSE i \in found : \A j \in found : i <= j
             IN  [idx |-> i, headers |-> At(rs, i), rows |-> rs]
        ELSE [idx |-> 0, headers |-> synthetic_headers(mcl), rows |-> rs]

\* lines 297-298
text_cells(row) == Cardinality({i \in 1..Len(row) : Truthy(Strip(row[i])) /\ ~IsDigit(row[i])})

\* lines 282-301: the row the loop stops at, or 0
best_header_row(rs) ==
    LET is_ui(i) == i < Min(3, Len(rs)) /\ is_excel_ui_row(At(rs, i))
        accepted == {i \in 0..(Min(5, Len(rs)) - 1) :
                        /\ ~is_ui(i)
                        /\ \/ is_header_row(At(rs, i))
                           \/ text_cells(At(rs, i)) >= FloorDiv(Len(At(rs, i)), 2)}
    IN  IF accepted = {} THEN 0 ELSE CHOOSE i \in accepted : \A j \in accepted : i <= j

\* lines 303-324
fallback(rs) ==
    LET first_row == rs[1]
        first_col_ids == Cardinality({r \in 2..Min(6, Len(rs)) :
                                         Len(rs[r]) > 0 /\ is_likely_id(rs[r][1])})
        numeric_in_headers == Cardinality({i \in 1..Len(first_row) : is_likely_id(first_row[i])})
        best == best_header_row(rs)
    IN  IF /\ Len(first_row) > 0
           /\ ~(first_col_ids >= Min(3, Len(rs) - 1))
           /\ numeric_in_headers > 0
        THEN [idx |-> -1, headers |-> first_row, rows |-> rs]
        ELSE [idx |-> best, headers |-> At(rs, best), rows |-> rs]

detect_table_structure(rs) ==
    IF rs = <<>> \/ Len(rs) < 2 THEN [idx |-> 0, headers |-> <<>>, rows |-> rs]
    ELSE IF Len(rs[1]) # Len(rs[2]) /\ Len(rs) > 2 /\ Len(rs[2]) > Len(rs[1])
    THEN mismatch_repair(rs)
    ELSE LET first_row == rs[1]
             first_row_has_ids == row_has_ids(first_row)
             mcl == most_common_length(rs)
             first_row_has_embedded_ids ==
                 \E i \in 1..Len(first_row) : contains_embedded_id(first_row[i])
             first_row_has_headers == has_header_like_content(first_row)
             first_row_is_title == is_title_or_metadata_row(first_row, mcl)
             first_row_cols == Len(first_row)
         IN  IF first_row_is_title \/ (first_row_cols < mcl /\ ~first_row_has_headers)
             THEN title_branch(rs, mcl)
             ELSE IF first_row_cols < mcl /\ first_row_has_embedded_ids
             THEN [idx |-> -1, headers |-> first_row, rows |-> rs]
             ELSE IF (first_row_has_ids \/ first_row_has_embedded_ids) /\ ~first_row_has_headers
             THEN [idx |-> -1, headers |-> first_row, rows |-> rs]
             ELSE fallback(rs)


(***************************************************************************)
(* Table Repairer: detect_collapsed_table_structure (lines 464-492) and    *)
(* repair_collapsed_table_structure (lines 494-637).                       *)
(***************************************************************************)
\* str.split('\n')
RECURSIVE SplitLines(_)
SplitLines(s) ==
    LET n == RunLen(s, 1, {c \in Range(s) : c # "\n"})
    IN  IF n = Len(s) THEN <<s>>
        ELSE <<SubSeq(s, 1, n)>> \o SplitLines(SubSeq(s, n + 2, Len(s)))

\* re.match(r'^\d{7,10}$', line)
is_bare_id(line) == match_digits(line, 7, 10)

detect_collapsed_table_structure(t) ==
    IF t.rows = <<>> THEN FALSE
    ELSE IF Len(t.rows[1]) > 2 THEN FALSE
    ELSE LET first_cell == IF t.rows[1] # <<>> THEN t.rows[1][1] ELSE <<>>
             lines == SplitLines(first_cell)
             id_pattern_count == Cardinality({i \in 1..Len(lines) : is_bare_id(Strip(lines[i]))})
         IN  "\n" \in Range(first_cell) /\ id_pattern_count >= 5

repair_keywords ==
    {<<"U+00D7", "U+00AA", ".", "U+00D7", "U+2013">>,
     <<"i", "d">>,
     <<"U+00D7", "U+00A9", "U+00D7", " ", "U+00D7", "U+00A4", "U+00D7", "U+00A8",
       "U+00D7", "U+02DC", "U+00D7", "U+2122">>,
     <<"U+00D7", "U+00A9", "U+00D7", " ", "U+00D7", "U+00D7", "U+00A9", "U+00D7",
       "U+00A4", "U+00D7", "U+2014", "U+00D7", "U+201D">>,
     <<"f", "i", "r", "s", "t">>,
     <<"l", "a", "s", "t">>}

has_keyword(line) == ContainsAny(repair_keywords, Lower(line))

\* [line.strip() for line in content.split('\n') if line.strip()]
content_lines(content) ==
    LET raw == SplitLines(content)
        stripped == [i \in 1..Len(raw) |-> Strip(raw[i])]
    IN  SelectSeq(stripped, Truthy)

\* lines 557-575 and 593-609: where the walk goes on after line i (0-based):
\* behind the record and its row number when line i is a bare ID, else one on
next_idx(lines, i) ==
    IF is_bare_id(At(lines, i))
    THEN IF /\ i + 3 < Len(lines)
            /\ IsDigit(At(lines, i + 3))
            /\ Len(At(lines, i + 3)) <= 2
         THEN i + 4
         ELSE i + 3
    ELSE i + 1

\* the walk without the test of line 557: a record from every line
parse_records_from_every_line(lines, i) ==
    [k \in 1..(Len(lines) - i) |->
        <<At(lines, i + k - 1),
          IF i + k < Len(lines) THEN At(lines, i + k) ELSE <<>>,
          IF i + k + 1 < Len(lines) THEN At(lines, i + k + 1) ELSE <<>>>>]

\* the while loops of lines 555-575 and 592-609, from index i (0-based)
RECURSIVE parse_records(_, _)
parse_records(lines, i) ==
    IF i >= Len(lines) THEN <<>>
    ELSE IF is_bare_id(At(lines, i))
    THEN LET id_num == At(lines, i)
             first_name == IF i + 1 < Len(lines) THEN At(lines, i + 1) ELSE <<>>
             last_name == IF i + 2 < Len(lines) THEN At(lines, i + 2) ELSE <<>>
         IN  <<<<id_num, first_name, last_name>>>> \o parse_records(lines, next_idx(lines, i))
    ELSE parse_records(lines, next_idx(lines, i))

default_headers == <<S_ID, S_FirstName, S_LastName>>

\* lines 519-523: index of the first line with a header keyword, none: -1
header_start(lines) ==
    LET hits == {i \in 0..(Len(lines) - 1) : has_keyword(At(lines, i))}
    IN  IF hits = {} THEN -1 ELSE CHOOSE i \in hits : \A j \in hits : i <= j

\* lines 529-541: where the header collection loop stops (the first bare ID
\* line without a keyword, or the end of its 5-line window)
header_stop(lines, start) ==
    LET last == Min(start + 5, Len(lines))
        breaks == {i \in start..(last - 1) :
                      ~has_keyword(At(lines, i)) /\ is_bare_id(At(lines, i))}
    IN  IF breaks = {} THEN last ELSE CHOOSE i \in breaks : \A j \in breaks : i <= j

header_lines(lines, start) ==
    LET stop == header_stop(lines, start)
    IN  SelectSeq(SubSeq(lines, start + 1, stop), has_keyword)

\* what one row adds to repaired_rows (lines 502-612)
RECURSIVE repaired_rows(_, _)
repaired_rows(rs, n) ==
    \* repaired_rows after the first n rows of the table
    IF n = 0 THEN <<>>
    ELSE LET before == repaired_rows(rs, n - 1)
             row == rs[n]
         IN  IF row = <<>> \/ ~Truthy(row[1]) THEN before
             ELSE LET content == Strip(row[1])
                      lines == content_lines(content)
                      start == header_start(lines)
                  IN  IF ~Truthy(content) \/ lines = <<>> THEN before
                      ELSE IF start # -1
                      THEN LET found == header_lines(lines, start)
                               hdrs == IF Len(found) >= 3 THEN SubSeq(found, 1, 3)
                                       ELSE default_headers
                               data_lines == SubSeq(lines, header_stop(lines, start) + 1, Len(lines))
                               parsed_data == parse_records(data_lines, 0)
                           IN  (IF before = <<>> THEN <<hdrs>> ELSE before) \o parsed_data
                      ELSE before \o parse_records(lines, 0)

repair_collapsed_table_structure(t) ==
    LET repaired == repaired_rows(t.rows, Len(t.rows))
    IN  IF repaired # <<>>
        THEN [kind |-> "table", rows |-> repaired, row_count |-> Len(repaired), column_count |-> 3]
        ELSE None


(***************************************************************************)
(* handle_transposed_table (lines 326-379), process_corrected_table        *)
(* (lines 381-462) and extract_final_table (lines 639-742).  The result    *)
(* records carry the result dict's fields and the column order computed.   *)
(***************************************************************************)
\* str.isalpha() characters among those in use
AlphaChars == AsciiLetters \cup HebrewLetters \cup {"U+00AA"}

\* lines 345-353: the synthetic header of cell i (0-based) of first_row
transposed_header(first_row, i) ==
    LET cell == At(first_row, i)
    IN  IF is_likely_id(cell) THEN S_ID
        ELSE IF i = Len(first_row) - 1 THEN S_Other
        ELSE IF \E k \in 1..Len(cell) : cell[k] \in AlphaChars THEN S_Name
        ELSE ColumnN(i + 1)

new_headers(first_row) == [k \in 1..Len(first_row) |-> transposed_header(first_row, k - 1)]

kw_corrected_id == {<<"i", "d">>, <<"U+00D7", "U+00AA", "U+00D7", "U+2013">>}

\* lines 390-398: id_col after the header loop (<<>> for None): every header
\* with an ID keyword assigns it
corrected_id_col(hdrs) ==
    LET hits == {i \in 0..(Len(hdrs) - 1) :
                    ContainsAny(kw_corrected_id, Strip(Lower(At(hdrs, i))))}
    IN  IF hits = {} THEN <<>> ELSE <<CHOOSE i \in hits : \A j \in hits : j <= i>>

\* lines 400-410: the first column with at least 3 ID-like values in the first
\* five data rows (<<>> for none)
id_like_col(hdrs, data_rows) ==
    LET id_count(c) == Cardinality({r \in 1..Min(5, Len(data_rows)) :
                                       c < Len(data_rows[r]) /\ is_likely_id(At(data_rows[r], c))})
        hits == {c \in 0..(Len(hdrs) - 1) : id_count(c) >= 3}
    IN  IF hits = {} THEN <<>> ELSE <<CHOOSE c \in hits : \A d \in hits : c <= d>>

process_corrected_table(t) ==
    LET hdrs0 == t.rows[1]
        data_rows == Tail(t.rows)
        by_name == corrected_id_col(hdrs0)
        by_data == IF by_name = <<>> THEN id_like_col(hdrs0, data_rows) ELSE <<>>
        \* headers[col_idx] = 'ID'
        hdrs == IF by_data = <<>> THEN hdrs0
                ELSE [k \in 1..Len(hdrs0) |-> IF k = by_data[1] + 1 THEN S_ID ELSE hdrs0[k]]
        id == by_name \o by_data
        order == id \o SelectIdx(Len(hdrs), (0..(Len(hdrs) - 1)) \ Range(id))
        out == <<reordered_headers(hdrs, order)>> \o reordered_rows(order, data_rows)
    IN  [kind |-> "table",
         rows |-> out,
         row_count |-> Len(out),
         column_count |-> Len(hdrs),
         original_headers |-> t.original_headers,
         reordered_headers |-> reordered_headers(hdrs, order),
         new_order |-> order,
         processed_by |-> "extract_final_table.py (corrected)"]

handle_transposed_table(t) ==
    IF Len(t.rows) >= 2
    THEN LET first_row == t.rows[1]
             hdrs == new_headers(first_row)
         IN  process_corrected_table(
                 [rows |-> <<hdrs>> \o t.rows,
                  row_count |-> Len(t.rows) + 1,
                  column_count |-> Len(hdrs),
                  original_headers |-> first_row])
    ELSE None

\* lines 657-659: the repaired table replaces the table when there is one
table_or_repaired(t, repaired_table) ==
    IF repaired_table # None
    THEN [rows |-> repaired_table.rows,
          row_count |-> repaired_table.row_count,
          column_count |-> repaired_table.column_count]
    ELSE t

\* lines 655-664: the table the structure detector is run on
table_after_repair(t) ==
    IF detect_collapsed_table_structure(t)
    THEN table_or_repaired(t, repair_collapsed_table_structure(t))
    ELSE t

\* lines 676-742: the result built from the detected headers and rows
reordered_table(t, detected, order) ==
    [kind |-> "table",
     rows |-> reordered_rows(order, detected.rows),
     row_count |-> t.row_count,
     column_count |-> t.column_count,
     original_headers |-> detected.headers,
     reordered_headers |-> reordered_headers(detected.headers, order),
     new_order |-> order,
     processed_by |-> "extract_final_table.py"]

\* lines 669-742: what is made of the detector's answer
process_detected(t, detected) ==
    IF detected.idx = -1
    THEN handle_transposed_table(t)
    ELSE reordered_table(t, detected, new_order(detected.headers))

\* lines 655-742: the table after the repair goes through the detector
process_table(t) == process_detected(t, detect_table_structure(t.rows))

\* extract_final_table after json.load: tabs is the list read from the file
extract_final_table(tabs) ==
    IF tabs = <<>> THEN None
    ELSE IF tabs[1].rows = <<>> THEN None
    ELSE process_table(table_after_repair(tabs[1]))


(***************************************************************************)
(* Specification of the table repairer: repair_collapsed_table_structure   *)
(* is applied to tables whose rows hold one multi-line cell each.          *)
(***************************************************************************)
MaxLines == 3

L_Id7 == <<"1", "2", "3", "4", "5", "6", "7">>
L_Id9 == <<"1", "2", "3", "4", "5", "6", "7", "8", "9">>
L_Id9b == <<"9", "8", "7", "6", "5", "4", "3", "2", "1">>
L_Dov == <<"D", "o", "v">>
L_Mendelovich == <<"M", "e", "n", "d", "e", "l", "o", "v", "i", "c", "h">>
L_Eyal == <<"E", "y", "a", "l">>
L_Cohen == <<"C", "o", "h", "e", "n">>
L_RowNo == <<"1">>
L_David == <<"D", "a", "v", "i", "d">>

RepairLinePool == {H_ID, H_First, L_Id7, L_Dov, L_RowNo, L_David}

\* '\n'.join(ls)
RECURSIVE JoinLines(_)
JoinLines(ls) ==
    IF ls = <<>> THEN <<>>
    ELSE IF Len(ls) = 1 THEN ls[1]
    ELSE ls[1] \o <<"\n">> \o JoinLines(Tail(ls))

\* the cell of the repair scenario: three header lines, a record, a row
\* number, a second record
ExampleLines == <<H_ID, H_First, H_Last, L_Id9, L_Dov, L_Mendelovich, L_RowNo,
                  L_Id9b, L_Eyal, L_Cohen>>
ExampleCell == JoinLines(ExampleLines)

RepairCells ==
    {JoinLines(ls) : ls \in SeqsUpTo(RepairLinePool, MaxLines)} \cup {ExampleCell}

\* one-row tables over every cell, two-row tables over a few
RepairTables ==
    {[rows |-> <<<<c>>>>] : c \in RepairCells}
    \cup {[rows |-> <<<<c1>>, <<c2>>>>] :
             c1 \in {ExampleCell, H_ID, L_Dov}, c2 \in {ExampleCell, JoinLines(<<L_Id7, L_Dov>>), L_David}}

InitRepair ==
    /\ pc = "repair"
    /\ table \in RepairTables
    /\ result = None
    /\ headers = <<>>
    /\ rows = <<>>
    /\ header_row_idx = 0
    /\ files = <<>>
    /\ tables = <<>>
    /\ processed_files = <<>>
    /\ all_rows = <<>>
    /\ df = None
    /\ df_normalized = None
    /\ matches = <<>>
    /\ result_folders = NoResultFiles

RepairCollapsed ==
    /\ pc = "repair"
    /\ result' = repair_collapsed_table_structure(table)
    /\ pc' = "repaired"
    /\ UNCHANGED <<files, tables, headers, rows, header_row_idx, table,
                   processed_files, all_rows, df, df_normalized, matches,
                   result_folders>>

NextRepair == RepairCollapsed

SpecRepair == InitRepair /\ [][NextRepair]_vars

(***************************************************************************)
(* Claims about the table repairer (checked under SpecRepair).             *)
(***************************************************************************)
\* the lines of the sole cell of a one-row table
CellLines(t) == content_lines(Strip(t.rows[1][1]))

\* the lines a walk over ls anchors records at: a bare ID line that is not
\* one of the two lines taken as the names of the record anchored before it
Anchors(ls) ==
    CHOOSE A \in SUBSET (0..(Len(ls) - 1)) :
        \A i \in 0..(Len(ls) - 1) :
            i \in A <=> (is_bare_id(At(ls, i)) /\ (i - 1) \notin A /\ (i - 2) \notin A)

\* the record (id, next line, line after next) anchored at line i
RecordAt(ls, i) ==
    <<At(ls, i),
      IF i + 1 < Len(ls) THEN At(ls, i + 1) ELSE <<>>,
      IF i + 2 < Len(ls) THEN At(ls, i + 2) ELSE <<>>>>

WalkRecords(ls) == [k \in 1..Cardinality(Anchors(ls)) |-> RecordAt(ls, SelectIdx(Len(ls), Anchors(ls))[k])]

\* the ID-anchored rows of what the repair returned
RecoveredRecords(r) ==
    IF r = None THEN <<>> ELSE SelectSeq(r.rows, LAMBDA row : row # <<>> /\ is_bare_id(row[1]))

\* the header-vocabulary lines a cell starts with
LeadingHeaders(ls) ==
    LET n == CHOOSE n \in 0..Len(ls) :
                 /\ \A i \in 1..n : has_keyword(ls[i])
                 /\ n < Len(ls) => ~has_keyword(ls[n + 1])
    IN  SubSeq(ls, 1, n)

\* for the scenario's cell the repair yields the three headers and exactly
\* the two records
C7_RepairExample ==
    (pc = "repaired" /\ table = [rows |-> <<<<ExampleCell>>>>])
        => result.rows = <<<<H_ID, H_First, H_Last>>,
                           <<L_Id9, L_Dov, L_Mendelovich>>,
                           <<L_Id9b, L_Eyal, L_Cohen>>>>

\* for a one-cell row: three header lines at the start become the headers,
\* and the records are those of the walk over the cell's lines
C7_RepairWalk ==
    (pc = "repaired" /\ Len(table.rows) = 1 /\ CellLines(table) # <<>>)
        => /\ Len(LeadingHeaders(CellLines(table))) >= 3
                => result.rows[1] = SubSeq(LeadingHeaders(CellLines(table)), 1, 3)
           /\ RecoveredRecords(result) = WalkRecords(CellLines(table))

\* C7: repair_collapsed_table_structure takes the header-vocabulary lines at
\* the start of the cell as headers and emits, for each bare 7-10 digit ID
\* line the walk meets, the record (id, next line, line after next); for the
\* scenario's ten lines it yields headers [ID, First Name, Last Name] and
\* exactly the two records.
C7_RepairCollapsed == C7_RepairExample /\ C7_RepairWalk

\* C8: repair_collapsed_table_structure returns None whenever no ID-anchored
\* record was recovered from any row of the table, also when header lines
\* were found but no ID line followed them.
C8_NoneWhenNothingRecovered ==
    (pc = "repaired" /\ RecoveredRecords(result) = <<>>) => result = None


(***************************************************************************)
(* Specification of extract_final_table: the steps of lines 639-723 over   *)
(* the contents of a tables file.                                          *)
(***************************************************************************)
R_ABC == <<<<"A">>, <<"B">>, <<"C">>>>
R_IdJohnDoe == <<<<"1", "2", "3", "4", "5", "6", "7", "8", "9">>, <<"J", "o", "h", "n">>, <<"D", "o", "e">>>>
R_Header == <<H_ID, H_First, H_Last>>
R_NamesThenId == <<H_First, H_Last, H_ID>>
R_Hebrew == <<H_he_first, H_he_last, H_he_tz>>
R_DanaLeviId == <<<<"D", "a", "n", "a">>, <<"L", "e", "v", "i">>, <<"9", "8", "7", "6", "5", "4", "3", "2", "1">>>>
R_IdOnly == <<L_Id9>>
R_DanaLevi == <<<<"D", "a", "n", "a">>, <<"L", "e", "v", "i">>>>
R_IdThenTitle == <<<<"1", "2", "3", "4", "5", "6", "7", "8", "9">>, <<"L", "i", "s", "t", " ", "o", "f", " ", "s", "t", "a", "f", "f">>>>
R_Wide == <<<<"1", "2">>, <<"9", "8", "7", "6", "5", "4", "3", "2", "1">>, <<"D", "a", "n", "a">>, <<"L", "e", "v", "i">>>>
R_Title == <<<<"L", "i", "s", "t", " ", "o", "f", " ", "s", "t", "a", "f", "f">>>>
R_NoCells == <<>>
\* collapsed cells: five bare ID lines with names, and five bare ID lines
\* followed by a name
R_Collapsed == <<<<"1", "2", "3", "4", "5", "6", "7", "\n", "D", "o", "v", "\n", "C", "o", "h", "e", "n", "\n", "2", "3", "4", "5", "6", "7", "8", "\n", "E", "y", "a", "l", "\n", "L", "e", "v", "i", "\n", "3", "4", "5", "6", "7", "8", "9", "\n", "4", "5", "6", "7", "8", "9", "0", "\n", "5", "6", "7", "8", "9", "0", "1">>>>
R_CollapsedIdsThenName == <<<<"1", "2", "3", "4", "5", "6", "7", "\n", "2", "3", "4", "5", "6", "7", "8", "\n", "3", "4", "5", "6", "7", "8", "9", "\n", "4", "5", "6", "7", "8", "9", "0", "\n", "5", "6", "7", "8", "9", "0", "1", "\n", "D", "a", "v", "i", "d">>>>

ExtractRowPool ==
    {R_ABC, R_IdJohnDoe, R_Header, R_NamesThenId, R_Hebrew, R_DanaLeviId, R_IdOnly,
     R_DanaLevi, R_IdThenTitle, R_Wide, R_Title, R_NoCells, R_Collapsed,
     R_CollapsedIdsThenName}

\* a table dict as sample_analyze_read.py writes it
TableOf(rs) ==
    [rows |-> rs, row_count |-> Len(rs),
     column_count |-> IF rs = <<>> THEN 0 ELSE Len(rs[1])]

MaxMismatchRows == 4

R_IdAndName == <<L_Id9b, <<"N", "o", "a">>>>
R_EmbeddedId == <<<<"D", "a", "n", "a", " ", "1", "2", "3", "4", "5", "6", "7", "8", "9">>>>

\* tables whose row 0 is narrower than the rows after it: an ID, names, an ID
\* with a name, header texts, or a name with its ID in one cell, over 2 or
\* more rows of 3 or 4 cells
MismatchRowLists ==
    UNION {{<<first>> \o rest :
               first \in {R_IdOnly, R_DanaLevi, R_IdAndName, <<H_ID, H_First>>, R_EmbeddedId},
               rest \in [1..n -> {R_IdJohnDoe, R_DanaLeviId, R_Wide}]} :
           n \in 2..(MaxMismatchRows - 1)}

\* the tables file: no table, or one table of 0..MaxRows rows, or one of the
\* tables with a narrow row 0
ExtractTables ==
    {<<>>}
    \cup {<<TableOf(rs)>> : rs \in SeqsUpTo(ExtractRowPool, MaxRows)}
    \cup {<<TableOf(rs)>> : rs \in MismatchRowLists}

InitExtract ==
    /\ pc = "load"
    /\ tables \in ExtractTables
    /\ table = None
    /\ result = None
    /\ headers = <<>>
    /\ rows = <<>>
    /\ header_row_idx = 0
    /\ files = <<>>
    /\ processed_files = <<>>
    /\ all_rows = <<>>
    /\ df = None
    /\ df_normalized = None
    /\ matches = <<>>
    /\ result_folders = NoResultFiles

\* lines 646-653: "No tables found" or "No data in table"
nothing_to_extract(tabs) == IF tabs = <<>> THEN TRUE ELSE tabs[1].rows = <<>>

\* lines 641-653: no tables or no rows: return None
LoadFails ==
    /\ pc = "load"
    /\ nothing_to_extract(tables)
    /\ result' = None
    /\ pc' = "failed"
    /\ UNCHANGED <<files, tables, headers, rows, header_row_idx, table,
                   processed_files, all_rows, df, df_normalized, matches,
                   result_folders>>

LoadTable ==
    /\ pc = "load"
    /\ ~nothing_to_extract(tables)
    /\ table' = tables[1]
    /\ pc' = "collapsed"
    /\ UNCHANGED <<files, tables, headers, rows, header_row_idx, result,
                   processed_files, all_rows, df, df_normalized, matches,
                   result_folders>>

\* lines 655-661
RepairIfCollapsed ==
    /\ pc = "collapsed"
    /\ detect_collapsed_table_structure(table)
    /\ table' = table_after_repair(table)
    /\ pc' = "detect"
    /\ UNCHANGED <<files, tables, headers, rows, header_row_idx, result,
                   processed_files, all_rows, df, df_normalized, matches,
                   result_folders>>

NotCollapsed ==
    /\ pc = "collapsed"
    /\ ~detect_collapsed_table_structure(table)
    /\ pc' = "detect"
    /\ UNCHANGED <<files, tables, headers, rows, header_row_idx, table, result,
                   processed_files, all_rows, df, df_normalized, matches,
                   result_folders>>

\* lines 663-664: rows is the list detect_table_structure was given, with
\* what its mismatch repair wrote into it
DetectStructure ==
    /\ pc = "detect"
    /\ LET detected == detect_table_structure(table.rows)
       IN  /\ header_row_idx' = detected.idx
           /\ headers' = detected.headers
           /\ rows' = detected.rows
           /\ pc' = IF detected.idx = -1 THEN "transposed" ELSE "reorder"
    /\ UNCHANGED <<files, tables, table, result, processed_files, all_rows,
                   df, df_normalized, matches,
                   result_folders>>

\* lines 666-669
HandleTransposed ==
    /\ pc = "transposed"
    /\ result' = handle_transposed_table(table)
    /\ pc' = "done"
    /\ UNCHANGED <<files, tables, headers, rows, header_row_idx, table,
                   processed_files, all_rows, df, df_normalized, matches,
                   result_folders>>

\* lines 671-723
ReorderColumns ==
    /\ pc = "reorder"
    /\ LET order == new_order(headers)
       IN  result' = [kind |-> "table",
                      rows |-> reordered_rows(order, rows),
                      row_count |-> table.row_count,
                      column_count |-> table.column_count,
                      original_headers |-> headers,
                      reordered_headers |-> reordered_headers(headers, order),
                      new_order |-> order,
                      processed_by |-> "extract_final_table.py"]
    /\ pc' = "done"
    /\ UNCHANGED <<files, tables, headers, rows, header_row_idx, table,
                   processed_files, all_rows, df, df_normalized, matches,
                   result_folders>>

NextExtract ==
    \/ LoadFails
    \/ LoadTable
    \/ RepairIfCollapsed
    \/ NotCollapsed
    \/ DetectStructure
    \/ HandleTransposed
    \/ ReorderColumns

SpecExtract == InitExtract /\ [][NextExtract]_vars

\* the steps compose to the function
StepsAreExtractFinalTable ==
    pc \in {"done", "failed"} => result = extract_final_table(tables)


(***************************************************************************)
(* Claims about extract_final_table and detect_table_structure (checked    *)
(* under SpecExtract).                                                     *)
(***************************************************************************)
\* C4: a table whose header row is the Hebrew [first name, last name, ID] is
\* reordered to [ID, first name, last name], and every data row's cells are
\* moved the same way, whatever the data rows are.
C4_HebrewHeadersReordered ==
    (pc = "done" /\ Len(tables[1].rows) >= 2 /\ tables[1].rows[1] = R_Hebrew)
        => /\ result # None
           /\ result.reordered_headers = <<H_he_tz, H_he_first, H_he_last>>
           /\ result.rows = reordered_rows(<<2, 0, 1>>, tables[1].rows)

\* C5: for [["A","B","C"],["123456789","John","Doe"]] detect_table_structure
\* returns -1 and the resulting table keeps both original rows as data rows
\* under a row of synthetic headers.
C5_HeaderlessTwoRowTable ==
    (pc = "done" /\ tables = <<TableOf(<<R_ABC, R_IdJohnDoe>>)>>)
        => /\ header_row_idx = -1
           /\ result # None
           /\ Len(result.rows) = 3
           /\ result.rows[1] = result.reordered_headers
           /\ \A k \in 1..2 : result.rows[k + 1] = project_row(tables[1].rows[k], result.new_order)

\* lines 106-110: the column-count mismatch repair is entered
mismatch_detected(rs) == Len(rs[1]) # Len(rs[2]) /\ Len(rs) > 2

\* C6: with at least 2 rows and no column-count mismatch repair, a row 0
\* holding an ID-like value and no header vocabulary makes
\* detect_table_structure return -1 with row 0, whatever the later rules say.
C6_IdInFirstRowMeansHeaderless ==
    (/\ pc \in {"transposed", "reorder"}
     /\ Len(table.rows) >= 2
     /\ ~mismatch_detected(table.rows)
     /\ row_has_ids(table.rows[1])
     /\ ~has_header_like_content(table.rows[1]))
        => (header_row_idx = -1 /\ headers = table.rows[1])


(***************************************************************************)
(* batch_ocr_processor.py: the header classifier is_likely_data (lines     *)
(* 19-64), clean_and_normalize_headers (lines 66-87) and the flattening of *)
(* create_excel_output (lines 611-749).  A dict is the sequence of its     *)
(* <<key, value>> pairs in insertion order.                                *)
(***************************************************************************)
K_SourceFile == <<"S", "o", "u", "r", "c", "e", " ", "F", "i", "l", "e">>
K_Error == <<"E", "r", "r", "o", "r">>
E_NoTableDataFound == <<"N", "o", " ", "t", "a", "b", "l", "e", " ", "d", "a", "t", "a", " ", "f", "o", "u", "n", "d">>
E_NoTableDataExtracted == <<"N", "o", " ", "t", "a", "b", "l", "e", " ", "d", "a", "t", "a", " ", "e", "x", "t", "r", "a", "c", "t", "e", "d">>
\* 'Table extraction failed: ' with the text of the CalledProcessError
E_TableExtractionFailed == <<"T", "a", "b", "l", "e", " ", "e", "x", "t", "r", "a", "c", "t", "i", "o", "n", " ", "f", "a", "i", "l", "e", "d", ":", " ">>
\* the last line the OCR subprocess wrote to stderr
E_OcrFailed == <<"U", "n", "k", "n", "o", "w", "n", " ", "e", "r", "r", "o", "r">>

\* s[i:].startswith(sub), i 1-based
StartsWithAt(s, i, sub) ==
    i + Len(sub) - 1 <= Len(s) /\ \A k \in 1..Len(sub) : s[i + k - 1] = sub[k]

\* re.sub(sub, '', s) / s.replace(sub, '') for a literal sub
RECURSIVE RemoveAll(_, _)
RemoveAll(s, sub) ==
    IF s = <<>> THEN <<>>
    ELSE IF StartsWithAt(s, 1, sub) THEN RemoveAll(SubSeq(s, Len(sub) + 1, Len(s)), sub)
    ELSE <<Head(s)>> \o RemoveAll(Tail(s), sub)

\* re.sub(r'[class]+', rep, s)
RECURSIVE CollapseRuns(_, _, _)
CollapseRuns(s, class, rep) ==
    IF s = <<>> THEN <<>>
    ELSE IF Head(s) \in class
    THEN rep \o CollapseRuns(SubSeq(s, RunLen(s, 1, class) + 1, Len(s)), class, rep)
    ELSE <<Head(s)>> \o CollapseRuns(Tail(s), class, rep)

\* len(re.findall(r'[class]+', s))
CountRuns(s, class) ==
    Cardinality({i \in 1..Len(s) : s[i] \in class /\ (i = 1 \/ s[i - 1] \notin class)})

\* ' '.join(s.split())
JoinSplit(s) == Strip(CollapseRuns(s, Whitespace, <<" ">>))

\* re.match(r'\d{1,2}/\d{1,2}/\d{2,4}', s)
match_slashed_date(s) ==
    \E a \in 1..2 : \E b \in 1..2 :
        /\ Len(s) >= a + b + 4
        /\ AllIn(s, 1, a, Digits)
        /\ s[a + 1] = "/"
        /\ AllIn(s, a + 2, a + 1 + b, Digits)
        /\ s[a + b + 2] = "/"
        /\ AllIn(s, a + b + 3, a + b + 4, Digits)

\* re.match(r'\d{4}-\d{2}-\d{2}', s)
match_iso_date(s) ==
    /\ Len(s) >= 10
    /\ AllIn(s, 1, 4, Digits) /\ s[5] = "-"
    /\ AllIn(s, 6, 7, Digits) /\ s[8] = "-"
    /\ AllIn(s, 9, 10, Digits)

\* re.match(r'^\d{3}-\d{3}-\d{4}$', s)
match_phone(s) ==
    /\ Len(s) = 12
    /\ AllIn(s, 1, 3, Digits) /\ s[4] = "-"
    /\ AllIn(s, 5, 7, Digits) /\ s[8] = "-"
    /\ AllIn(s, 9, 12, Digits)

ocr_artifacts ==
    {<<"V", "(", "P", "I", "N", "V", "I", "S">>,
     <<"N", "d", " ", "D", "O", "I", "S">>,
     <<"G", "o", "o", "d", " ", "N", "e", "u", "t", "r", "a", "l">>,
     <<":", "s", "e", "l", "e", "c", "t", "e", "d", ":">>,
     <<":", "u", "n", "s", "e", "l", "e", "c", "t", "e", "d", ":">>}

is_likely_data(value) ==
    IF ~Truthy(value) THEN FALSE
    ELSE LET value_str == Strip(value)
             hebrew_words == CountRuns(value_str, HebrewChars)
         IN  \/ match_slashed_date(value_str)
             \/ match_iso_date(value_str)
             \/ match_dotted_date(value_str)
             \/ match_digits(value_str, 7, 12)
             \/ match_phone(value_str)
             \/ match_digits(value_str, 10, 10)
             \/ hebrew_words >= 3
             \/ ("U+05D5" \in Range(value_str) /\ hebrew_words >= 2)
             \/ Len(value_str) > 25
             \/ (("|" \in Range(value_str) \/ "," \in Range(value_str)) /\ Len(value_str) > 8)
             \/ ContainsAny(ocr_artifacts, value_str)

\* lines 75-85
clean_header(header) ==
    LET s0 == Strip(header)
        s1 == RemoveAll(s0, <<":", "s", "e", "l", "e", "c", "t", "e", "d", ":">>)
        s2 == RemoveAll(s1, <<":", "u", "n", "s", "e", "l", "e", "c", "t", "e", "d", ":">>)
        s3 == CollapseRuns(s2, {"\n"}, <<" ">>)
        s4 == CollapseRuns(s3, Whitespace, <<" ">>)
    IN  Strip(s4)

clean_and_normalize_headers(hdrs) ==
    [k \in 1..Len(hdrs) |->
        IF ~Truthy(hdrs[k]) \/ is_likely_data(hdrs[k]) THEN <<>> ELSE clean_header(hdrs[k])]

\* create_excel_output.is_id_like, lines 643-654
is_id_like(value) ==
    IF ~Truthy(value) THEN FALSE
    ELSE LET val_str == Strip(value)
         IN  \/ match_grouped_id(val_str)
             \/ match_digits(val_str, 9, 9)
             \/ match_digits(val_str, 8, 10)

\* create_excel_output.has_header_like_content, line 658
excel_header_words ==
    {<<"i", "d">>,
     <<"n", "a", "m", "e">>,
     <<"U+05E9", "U+05DD">>,
     <<"U+05EA", ".", "U+05D6">>,
     <<"U+05EA", "U+05D6">>,
     <<"U+05EA", "U+05F4", "U+05D6">>,
     <<"U+05DE", "U+05E1", "U+05E4", "U+05E8">>,
     <<"U+05D6", "U+05D4", "U+05D5", "U+05EA">>,
     <<"f", "i", "r", "s", "t">>,
     <<"l", "a", "s", "t">>,
     <<"U+05EA", "U+05E4", "U+05E7", "U+05D9", "U+05D3">>,
     <<"p", "o", "s", "i", "t", "i", "o", "n">>}

excel_has_header_like_content(row) ==
    \E i \in 1..Len(row) :
        Truthy(row[i]) /\ ContainsAny(excel_header_words, Lower(Strip(row[i])))

\* line 690: a cell with a Hebrew or English letter, longer than 1 character
is_meaningful_header(val) ==
    /\ Truthy(val) /\ Truthy(Strip(val))
    /\ \E i \in 1..Len(Strip(val)) : Strip(val)[i] \in (HebrewChars \cup AsciiLetters)
    /\ Len(Strip(val)) > 1

\* lines 699-707
real_header(val) ==
    IF Truthy(val) /\ Truthy(Strip(val))
    THEN JoinSplit(SelectSeq(Strip(val),
             LAMBDA c : c \in (WordChars \cup HebrewChars \cup Whitespace \cup {".", "-"})))
    ELSE <<>>

\* d[key] = value
DictSet(d, key, value) ==
    IF \E k \in 1..Len(d) : d[k][1] = key
    THEN [k \in 1..Len(d) |-> IF d[k][1] = key THEN <<key, value>> ELSE d[k]]
    ELSE Append(d, <<key, value>>)

DictHas(d, key) == \E k \in 1..Len(d) : d[k][1] = key

DictGet(d, key) == d[CHOOSE k \in 1..Len(d) : d[k][1] = key][2]

\* lines 723-738: row_data after the first n cells of data_row
RECURSIVE row_data(_, _, _, _)
row_data(filename, filtered_headers, data_row, n) ==
    IF n = 0 THEN <<<<K_SourceFile, filename>>>>
    ELSE LET before == row_data(filename, filtered_headers, data_row, n - 1)
             i == n - 1
         IN  IF i < Len(filtered_headers)
             THEN IF Truthy(At(filtered_headers, i))
                  THEN DictSet(before, At(filtered_headers, i), data_row[n])
                  ELSE before
             ELSE DictSet(before, ColumnN(i + 1), data_row[n])

\* lines 637-740: the records one table contributes
table_records(filename, table_info) ==
    IF table_info.rows = <<>> \/ Len(table_info.rows) <= 1 THEN <<>>
    ELSE LET rs == table_info.rows
             first_row == rs[1]
             first_row_has_ids == \E i \in 1..Len(first_row) : is_id_like(first_row[i])
             first_row_has_headers == excel_has_header_like_content(first_row)
             all_data == first_row_has_ids /\ ~first_row_has_headers
             hdrs0 == IF all_data THEN [k \in 1..Len(first_row) |-> ColumnN(k)] ELSE first_row
             data0 == IF all_data THEN rs ELSE Tail(rs)
             excel_col_count ==
                 Cardinality({k \in 1..Len(hdrs0) :
                                 Len(Strip(hdrs0[k])) = 1 /\ Strip(hdrs0[k])[1] \in UpperSet})
             promote ==
                 /\ 2 * excel_col_count > Len(hdrs0)
                 /\ Len(hdrs0) > 2
                 /\ Len(data0) > 0
                 /\ ~first_row_has_ids
                 /\ 10 * Cardinality({k \in 1..Len(data0[1]) : is_meaningful_header(data0[1][k])})
                        >= 6 * Len(hdrs0)
             hdrs == IF promote THEN [k \in 1..Len(data0[1]) |-> real_header(data0[1][k])] ELSE hdrs0
             data_rows == IF promote THEN Tail(data0) ELSE data0
             filtered_headers == clean_and_normalize_headers(hdrs)
         IN  [r \in 1..Len(data_rows) |->
                 row_data(filename, filtered_headers, data_rows[r], Len(data_rows[r]))]

\* lines 615-740: the records one file result contributes
RECURSIVE tables_records(_, _, _)
tables_records(filename, table_data, n) ==
    IF n = 0 THEN <<>>
    ELSE tables_records(filename, table_data, n - 1) \o table_records(filename, table_data[n])

file_records(file_data) ==
    IF "error" \in DOMAIN file_data
    THEN <<<<<<K_SourceFile, file_data.filename>>, <<K_Error, file_data.error>>>>>>
    ELSE IF "table_data" \in DOMAIN file_data
    THEN IF file_data.table_data = <<>>
         THEN <<<<<<K_SourceFile, file_data.filename>>, <<K_Error, E_NoTableDataFound>>>>>>
         ELSE tables_records(file_data.filename, file_data.table_data, Len(file_data.table_data))
    ELSE <<>>

\* all_rows after the first n file results
RECURSIVE collect_all_rows(_, _)
collect_all_rows(results, n) ==
    IF n = 0 THEN <<>>
    ELSE collect_all_rows(results, n - 1) \o file_records(results[n])


(***************************************************************************)
(* batch_ocr_processor.py: process_single_file (lines 321-609) for a file  *)
(* that exists and is below the size limit, with its cache of OCR results,  *)
(* the loop of main (lines 849-852) and the start of create_excel_output   *)
(* (lines 611-749).                                                        *)
(***************************************************************************)
\* a missing cell of a DataFrame
NaN == <<"NaN">>

\* the values of the 'cached' key of a result: True where the code writes it,
\* and the value of `cached_json and cached_txt` at line 549: None for a file
\* that was not cached, the Path of the cached text file (truthy) otherwise
True == [kind |-> "True"]
CachedTxtPath == [kind |-> "Path"]

\* Path(filename).stem: the name without its last suffix
stem(filename) ==
    LET dots == {i \in 2..Len(filename) : filename[i] = "."}
    IN  IF dots = {} THEN filename
        ELSE SubSeq(filename, 1, (CHOOSE i \in dots : \A j \in dots : j <= i) - 1)

\* path.unlink() / os.remove(path) of the file stored under key
DictDel(d, key) == SelectSeq(d, LAMBDA kv : kv[1] # key)

\* a table's 'cells' list is empty: the OCR step writes one cell per entry of
\* 'rows' (sample_analyze_read.py lines 169-189)
has_no_cells(t) == \A r \in 1..Len(t.rows) : t.rows[r] = <<>>

\* lines 383-397: the rows rebuilt from a cached table's cells, every cell
\* stripped, short rows padded with '', rows without text left out
grid_rows(t) ==
    LET filled == {r \in 1..Len(t.rows) : t.rows[r] # <<>>}
        max_row == CHOOSE r \in filled : \A q \in filled : q <= r
        widest == CHOOSE r \in filled : \A q \in filled : Len(t.rows[q]) <= Len(t.rows[r])
        max_col == Len(t.rows[widest])
        grid == [r \in 1..max_row |->
                    [c \in 1..max_col |->
                        IF c <= Len(t.rows[r]) THEN Strip(t.rows[r][c]) ELSE <<>>]]
    IN  SelectSeq(grid, LAMBDA row : \E c \in 1..Len(row) : Strip(row[c]) # <<>>)

\* lines 380-408: max() of line 385 raises ValueError for a table without cells
final_table_data_raises(cached_table_data) ==
    \E n \in 1..Len(cached_table_data) : has_no_cells(cached_table_data[n])

\* lines 383-408 when no table is without cells
final_table_data(cached_table_data) ==
    [n \in 1..Len(cached_table_data) |->
        LET grid == grid_rows(cached_table_data[n])
        IN  [rows |-> grid, row_count |-> Len(grid),
             column_count |-> IF grid = <<>> THEN Len(cached_table_data[n].rows[1])
                              ELSE Len(grid[1])]]

RECURSIVE rows_count_sum(_, _)
rows_count_sum(table_data, n) ==
    IF n = 0 THEN 0 ELSE rows_count_sum(table_data, n - 1) + Len(table_data[n].rows)

\* lines 231-260.  The files of json_result and txt_result carry the stem and
\* the first 8 hex digits of the MD5 of the content, which the model names by
\* the file name (distinct files have distinct content, a file does not
\* change).  Nothing writes temp_results/<stem>_tables.json, so the lookup of
\* lines 237-246 finds nothing.
check_cached_results(filename, folders) ==
    DictHas(folders.json_tables, filename) /\ filename \in folders.txt

\* sample_analyze_read.py lines 266-287: the results in the working directory
\* are moved to the result folders and copied back
ocr_results_moved(doc, base, folders) ==
    [folders EXCEPT
       !.json_tables = IF DictHas(folders.cwd_tables, base)
                       THEN DictSet(@, doc.filename,
                                [kind |-> "list", tables |-> DictGet(folders.cwd_tables, base)])
                       ELSE @,
       !.txt = @ \cup {doc.filename}]

\* sample_analyze_read.py <file> --json: lines 249-289 with analyze_read's
\* lines 199-211.  The text file is always written; <stem>_tables.json only
\* when tables were found, and the script moves whatever <stem>_tables.json
\* the working directory holds to json_result and copies it back.
ocr_subprocess(doc, folders) ==
    IF ~doc.ocr_ok
    THEN [folders EXCEPT !.ocr_runs = Append(@, doc.filename)]
    ELSE ocr_results_moved(doc, stem(doc.filename),
             [folders EXCEPT
                !.ocr_runs = Append(@, doc.filename),
                !.cwd_tables = IF doc.tables # <<>>
                               THEN DictSet(@, stem(doc.filename), doc.tables) ELSE @,
                !.cwd_txt = @ \cup {stem(doc.filename)}])

\* lines 527-609: the read of <stem>_final_table.json; extracted is what
\* extract_final_table.py wrote, None when <stem>_tables.json was not there
read_final_table(doc, folders, cached, base, extracted) ==
    IF extracted # None
    \* lines 527-551
    THEN [outcome |-> [filename |-> doc.filename,
                       table_data |-> <<extracted>>,
                       rows_count |-> 1,
                       cached |-> IF cached THEN CachedTxtPath ELSE None],
          folders |-> [folders EXCEPT
                         !.json_final = IF cached THEN @
                                        ELSE DictSet(@, doc.filename,
                                                 [kind |-> "table_data",
                                                  table_data |-> <<extracted>>]),
                         !.cwd_tables = DictDel(@, base),
                         !.cwd_txt = @ \ {base}]]
    \* lines 555-609
    ELSE [outcome |-> [filename |-> doc.filename, error |-> E_NoTableDataExtracted],
          folders |-> IF cached THEN [folders EXCEPT !.cwd_txt = @ \ {base}]
                      ELSE [folders EXCEPT
                              !.json_tables = DictSet(@, doc.filename, [kind |-> "dict"]),
                              !.txt = IF base \in folders.cwd_txt
                                      THEN @ \cup {doc.filename} ELSE @,
                              !.json_final = DictSet(@, doc.filename,
                                                 [kind |-> "no_table_data"]),
                              !.cwd_txt = @ \ {base}]]

\* lines 518-524: extract_final_table.py --cleanup on <stem>_tables.json of
\* the working directory; extracted is None when it exits with 1
run_extraction(doc, folders, cached, base, extracted) ==
    IF extracted = None
    \* CalledProcessError
    THEN [outcome |-> [filename |-> doc.filename, error |-> E_TableExtractionFailed],
          folders |-> folders]
    ELSE read_final_table(doc, folders, cached, base, extracted)

\* lines 514-609
extract_and_read(doc, folders, cached) ==
    IF DictHas(folders.cwd_tables, stem(doc.filename))
    THEN run_extraction(doc, folders, cached, stem(doc.filename),
             extract_final_table(DictGet(folders.cwd_tables, stem(doc.filename))))
    ELSE read_final_table(doc, folders, cached, stem(doc.filename), None)

\* lines 345-436: the cached final table, or the cached tables of the OCR step
cached_result(doc, folders) ==
    IF DictHas(folders.json_final, doc.filename)
    THEN LET final == DictGet(folders.json_final, doc.filename)
         IN  IF final.kind = "no_table_data"
             THEN [outcome |-> [filename |-> doc.filename, error |-> E_NoTableDataExtracted,
                                cached |-> True],
                   folders |-> folders]
             ELSE [outcome |-> [filename |-> doc.filename,
                                table_data |-> final.table_data,
                                rows_count |-> Len(final.table_data),
                                cached |-> True],
                   folders |-> folders]
    ELSE LET cached_json == DictGet(folders.json_tables, doc.filename)
         IN  IF cached_json.kind = "list" /\ final_table_data_raises(cached_json.tables)
             \* lines 432-436: the exception is printed, processing goes on
             THEN extract_and_read(doc, folders, TRUE)
             ELSE IF cached_json.kind = "list"
             THEN [outcome |-> [filename |-> doc.filename,
                                table_data |-> final_table_data(cached_json.tables),
                                rows_count |-> rows_count_sum(final_table_data(cached_json.tables),
                                                              Len(cached_json.tables)),
                                cached |-> True],
                   folders |-> folders]
             ELSE [outcome |-> [filename |-> doc.filename, error |-> E_NoTableDataExtracted,
                                cached |-> True],
                   folders |-> folders]

\* lines 321-609 for a file that exists and is below the size limit.
\* doc.ocr_ok: sample_analyze_read.py exits with 0; doc.tables: the tables it
\* finds.  The result is the returned dict and the folders the call leaves.
process_single_file(doc, folders) ==
    IF check_cached_results(doc.filename, folders)
    THEN cached_result(doc, folders)
    ELSE IF ~doc.ocr_ok
    THEN [outcome |-> [filename |-> doc.filename, error |-> E_OcrFailed],
          folders |-> ocr_subprocess(doc, folders)]
    ELSE extract_and_read(doc, ocr_subprocess(doc, folders), FALSE)

\* the keys of the records in order of first appearance
RECURSIVE record_keys(_, _)
record_keys(records, n) ==
    IF n = 0 THEN <<>>
    ELSE LET before == record_keys(records, n - 1)
             keys == [k \in 1..Len(records[n]) |-> records[n][k][1]]
         IN  before \o SelectSeq(keys, LAMBDA key : \A j \in 1..Len(before) : before[j] # key)

\* pd.DataFrame(all_rows), line 745
DataFrame(records) ==
    LET cols == record_keys(records, Len(records))
    IN  [columns |-> cols,
         data |-> [r \in 1..Len(records) |->
                      [c \in 1..Len(cols) |->
                          IF DictHas(records[r], cols[c]) THEN DictGet(records[r], cols[c])
                          ELSE NaN]]]

\* df[cols] for a list of distinct column names that df has
select_columns(frame, cols) ==
    LET pos(name) == CHOOSE c \in 1..Len(frame.columns) : frame.columns[c] = name
    IN  [columns |-> cols,
         data |-> [r \in 1..Len(frame.data) |-> [c \in 1..Len(cols) |-> frame.data[r][pos(cols[c])]]]]

\* lines 747-749
source_file_first(frame) ==
    select_columns(frame,
        <<K_SourceFile>> \o SelectSeq(frame.columns, LAMBDA col : col # K_SourceFile))

(***************************************************************************)
(* Specification of the batch run: main processes every file, then         *)
(* create_excel_output collects the corpus records.                        *)
(***************************************************************************)
MaxFiles == 2

FileName(k) == <<"d", DigitChars[k], ".", "p", "d", "f">>

\* what the OCR step can make of a document
OcrOutcomes ==
    {[ocr_ok |-> FALSE, tables |-> <<>>]}
    \cup {[ocr_ok |-> TRUE, tables |-> t] :
             t \in {<<>>,
                    <<TableOf(<<>>)>>,
                    <<TableOf(<<R_CollapsedIdsThenName>>)>>,
                    <<TableOf(<<R_Collapsed>>)>>,
                    <<TableOf(<<R_Header>>)>>,
                    <<TableOf(<<R_Header, R_IdJohnDoe>>)>>,
                    <<TableOf(<<R_ABC, R_IdJohnDoe>>)>>,
                    <<TableOf(<<R_Hebrew, R_DanaLeviId>>)>>}}

BatchFiles ==
    UNION {{[k \in 1..n |-> [filename |-> FileName(k), ocr_ok |-> o[k].ocr_ok, tables |-> o[k].tables]] :
               o \in [1..n -> OcrOutcomes]} : n \in 1..MaxFiles}

InitBatch ==
    /\ pc = "main"
    /\ files \in BatchFiles
    /\ processed_files = <<>>
    /\ all_rows = <<>>
    /\ df = None
    /\ df_normalized = None
    /\ matches = <<>>
    /\ tables = <<>>
    /\ table = None
    /\ result = None
    /\ headers = <<>>
    /\ rows = <<>>
    /\ header_row_idx = 0
    /\ result_folders = NoResultFiles

\* main, lines 849-852
ProcessSingleFile ==
    /\ pc = "main"
    /\ Len(processed_files) < Len(files)
    /\ \E call \in {process_single_file(files[Len(processed_files) + 1], result_folders)} :
           /\ result' = call.outcome
           /\ result_folders' = call.folders
    /\ processed_files' = Append(processed_files, result')
    /\ UNCHANGED <<pc, files, tables, headers, rows, header_row_idx, table,
                   all_rows, df, df_normalized, matches>>

\* create_excel_output, lines 611-749
CollectAllRows ==
    /\ pc = "main"
    /\ Len(processed_files) = Len(files)
    /\ all_rows' = collect_all_rows(processed_files, Len(processed_files))
    /\ df' = IF all_rows' = <<>> THEN None ELSE source_file_first(DataFrame(all_rows'))
    /\ pc' = IF all_rows' = <<>> THEN "no_data" ELSE "normalize"
    /\ UNCHANGED <<files, tables, headers, rows, header_row_idx, table, result,
                   processed_files, df_normalized, matches,
                   result_folders>>

NextBatch == ProcessSingleFile \/ CollectAllRows

SpecBatch == InitBatch /\ [][NextBatch]_vars

(***************************************************************************)
(* Claims about the batch run (checked under SpecBatch).                   *)
(***************************************************************************)
\* the three terminal failures of a document: no tables, no rows in table
\* 0, a collapsed table 0 from which the repair recovers no record
terminal_failure(doc) ==
    IF ~doc.ocr_ok THEN FALSE
    ELSE IF doc.tables = <<>> THEN TRUE
    ELSE IF doc.tables[1].rows = <<>> THEN TRUE
    ELSE /\ detect_collapsed_table_structure(doc.tables[1])
         /\ RecoveredRecords(repair_collapsed_table_structure(doc.tables[1])) = <<>>

\* the corpus has an error record of the file
HasErrorRecord(filename) ==
    \E r \in 1..Len(all_rows) :
        /\ DictGet(all_rows[r], K_SourceFile) = filename
        /\ DictHas(all_rows[r], K_Error)
        /\ Truthy(DictGet(all_rows[r], K_Error))

\* C9: a document that ends in one of the three terminal failures gets an
\* explicit error outcome and an error record in the corpus; it does not go
\* on through structure detection as a success, and every document of the
\* batch is processed.
C9_TerminalFailuresBecomeErrorRecords ==
    pc \in {"normalize", "no_data"}
        => /\ Len(processed_files) = Len(files)
           /\ \A k \in 1..Len(files) :
                 terminal_failure(files[k])
                     => /\ "error" \in DOMAIN processed_files[k]
                        /\ HasErrorRecord(files[k].filename)

(***************************************************************************)
(* column_normalizer.py: clean_column_name (lines 133-186).                *)
(***************************************************************************)
\* s with every match removed; match_len[i] is the length of the match that
\* starts at position i, 0 where the pattern does not match (re.sub(p, '', s))
RECURSIVE RemoveMatches(_, _, _)
RemoveMatches(s, match_len, i) ==
    IF i > Len(s) THEN <<>>
    ELSE IF match_len[i] > 0 THEN RemoveMatches(s, match_len, i + match_len[i])
    ELSE <<s[i]>> \o RemoveMatches(s, match_len, i + 1)

\* where the '.*' of a match that has reached position i stops: the next line
\* feed, or the end of s
RECURSIVE LineEnd(_, _)
LineEnd(s, i) ==
    IF i > Len(s) THEN Len(s) + 1
    ELSE IF s[i] = "\n" THEN i
    ELSE LineEnd(s, i + 1)

\* r'[V\(\)]\s*PINVIS.*', line 155
pinvis_len(s, i) ==
    LET p == i + 1 + RunLen(s, i + 1, Whitespace)
    IN  IF s[i] \in {"V", "(", ")"} /\ StartsWithAt(s, p, <<"P", "I", "N", "V", "I", "S">>)
        THEN LineEnd(s, p + 6) - i
        ELSE 0

\* r'\d+Nd\s+DOIS.*', line 156
dois_len(s, i) ==
    LET d == RunLen(s, i, Digits)
        w == RunLen(s, i + d + 2, Whitespace)
    IN  IF /\ d >= 1
           /\ StartsWithAt(s, i + d, <<"N", "d">>)
           /\ w >= 1
           /\ StartsWithAt(s, i + d + 2 + w, <<"D", "O", "I", "S">>)
        THEN LineEnd(s, i + d + 2 + w + 4) - i
        ELSE 0

\* r'Good\s*Neutral.*', line 157
good_neutral_len(s, i) ==
    LET p == i + 4 + RunLen(s, i + 4, Whitespace)
    IN  IF /\ StartsWithAt(s, i, <<"G", "o", "o", "d">>)
           /\ StartsWithAt(s, p, <<"N", "e", "u", "t", "r", "a", "l">>)
        THEN LineEnd(s, p + 7) - i
        ELSE 0

\* r'\d+/\d+/\d+', line 158
date_len(s, i) ==
    LET a == RunLen(s, i, Digits)
        b == RunLen(s, i + a + 1, Digits)
        c == RunLen(s, i + a + b + 2, Digits)
    IN  IF /\ a >= 1
           /\ StartsWithAt(s, i + a, <<"/">>)
           /\ b >= 1
           /\ StartsWithAt(s, i + a + 1 + b, <<"/">>)
           /\ c >= 1
        THEN a + b + c + 2
        ELSE 0

\* r'<[^>]+>', line 165
tag_len(s, i) ==
    LET inside == RunLen(s, i + 1, Range(s) \ {">"})
    IN  IF s[i] = "<" /\ inside >= 1 /\ StartsWithAt(s, i + 1 + inside, <<">">>)
        THEN inside + 2
        ELSE 0

\* U+0600..U+06FF and U+0080..U+00FF as far as the inputs use them
ArabicChars == {"U+0627", "U+0644"}
Latin1Chars == {"U+00A0", "U+00A1", "U+00A2", "U+00A4", "U+00A8", "U+00A9", "U+00AA",
                "U+00B4", "U+00D7"}
\* U+0000..U+001F and U+007F..U+009F as far as the inputs use them
ControlChars == {"\n", "\t"}

\* str.lstrip(chars) / str.rstrip(chars)
RECURSIVE LStripChars(_, _)
LStripChars(s, chars) ==
    IF s # <<>> /\ Head(s) \in chars THEN LStripChars(Tail(s), chars) ELSE s

RECURSIVE RStripChars(_, _)
RStripChars(s, chars) ==
    IF s # <<>> /\ s[Len(s)] \in chars
    THEN RStripChars(SubSeq(s, 1, Len(s) - 1), chars)
    ELSE s

S_Unnamed == <<"U", "n", "n", "a", "m", "e", "d", ":">>

\* lines 145-158: the patterns removed from the stripped name
clean_patterns(cleaned) ==
    LET s1 == RemoveAll(cleaned, <<":", "s", "e", "l", "e", "c", "t", "e", "d", ":">>)
        s2 == RemoveAll(s1, <<":", "u", "n", "s", "e", "l", "e", "c", "t", "e", "d", ":">>)
        s3 == Without(Without(s2, ArabicChars), Latin1Chars)
        s4 == RemoveMatches(s3, [i \in 1..Len(s3) |-> pinvis_len(s3, i)], 1)
        s5 == RemoveMatches(s4, [i \in 1..Len(s4) |-> dois_len(s4, i)], 1)
        s6 == RemoveMatches(s5, [i \in 1..Len(s5) |-> good_neutral_len(s5, i)], 1)
    IN  RemoveMatches(s6, [i \in 1..Len(s6) |-> date_len(s6, i)], 1)

\* lines 160-184
clean_characters(cleaned) ==
    LET s1 == CollapseRuns(cleaned, {"\n"}, <<" ">>)
        s2 == CollapseRuns(s1, Whitespace, <<" ">>)
        s3 == RemoveMatches(s2, [i \in 1..Len(s2) |-> tag_len(s2, i)], 1)
        s4 == Without(s3, {"(", ")", "\"", "'"})
        s5 == Without(s4, ControlChars)
        s6 == SelectSeq(s5, LAMBDA c : c \in (WordChars \cup HebrewChars \cup Whitespace \cup {".", "-"}))
        s7 == JoinSplit(s6)
        s8 == IF s7 # <<>> /\ s7[Len(s7)] = "." /\ Len(s7) > 3 THEN RStripChars(s7, {"."}) ELSE s7
    IN  RStripChars(LStripChars(s8, {".", "-", "_"}), {".", "-", "_"})

clean_column_name(col_name) ==
    IF ~Truthy(col_name) THEN <<>>
    ELSE IF StartsWithAt(Strip(col_name), 1, S_Unnamed) THEN <<>>
    ELSE clean_characters(clean_patterns(Strip(col_name)))

(***************************************************************************)
(* column_normalizer.py: the DataFrame and the stages of                   *)
(* normalize_dataframe that look at column names and cell counts (lines    *)
(* 249-671).  A DataFrame is the record of its column names and of its     *)
(* rows of cells; a cell is a string or NaN, pandas' missing value, which  *)
(* stands for None as well.  The column names of a DataFrame are distinct. *)
(***************************************************************************)
\* what normalize_dataframe leaves when `df.columns = new_columns` raises
ValueError == [raised |-> "ValueError"]

\* pd.notna(val)
notna(val) == val # NaN

\* pd.notna(val) and str(val).strip()
has_text(val) == IF val = NaN THEN FALSE ELSE Strip(val) # <<>>

\* col in df.columns
has_column(frame, name) == \E c \in 1..Len(frame.columns) : frame.columns[c] = name

column_index(frame, name) == CHOOSE c \in 1..Len(frame.columns) : frame.columns[c] = name

\* df[col]
column(frame, name) ==
    [r \in 1..Len(frame.data) |-> frame.data[r][column_index(frame, name)]]

\* Series.dropna()
dropna(values) == SelectSeq(values, notna)

\* Series.head(n)
head(values, n) == SubSeq(values, 1, Min(n, Len(values)))

\* df.drop(columns=names)
drop_columns(frame, names) ==
    select_columns(frame, SelectSeq(frame.columns, LAMBDA col : col \notin names))

\* df.rename(columns={old_name: new_name})
rename_column(frame, old_name, new_name) ==
    [columns |-> [c \in 1..Len(frame.columns) |->
                     IF frame.columns[c] = old_name THEN new_name ELSE frame.columns[c]],
     data |-> frame.data]

\* df[col].notna().sum()
non_null_count(frame, col) == Len(dropna(column(frame, col)))

\* re.search(r'\d{n,}', s)
has_digit_run(s, n) == \E i \in 1..Len(s) : RunLen(s, i, Digits) >= n

\* lines 588-621: the column name looks like data content
name_is_data(col_str) ==
    \/ match_slashed_date(col_str)
    \/ match_iso_date(col_str)
    \/ match_dotted_date(col_str)
    \/ match_digits(col_str, 7, 12)
    \/ match_phone(col_str)
    \/ match_digits(col_str, 10, 10)
    \/ CountRuns(col_str, HebrewChars) >= 3
    \/ ("U+05D5" \in Range(col_str) /\ CountRuns(col_str, HebrewChars) >= 2)
    \/ Len(col_str) > 30
    \/ (("|" \in Range(col_str) \/ "," \in Range(col_str)) /\ Len(col_str) > 10)
    \/ ContainsAny({<<"V", "(", "P", "I", "N", "V", "I", "S">>,
                    <<"N", "d", " ", "D", "O", "I", "S">>,
                    <<"G", "o", "o", "d", " ", "N", "e", "u", "t", "r", "a", "l">>}, col_str)

\* lines 577-624
is_data_promoted(col) ==
    IF col = K_SourceFile THEN FALSE
    ELSE IF Strip(col) = <<>> THEN FALSE
    ELSE name_is_data(Strip(col))

filter_data_promoted_columns(frame) ==
    drop_columns(frame, {col \in Range(frame.columns) : is_data_promoted(col)})

\* lines 272-300
is_suspicious(col_str) ==
    \/ CountRuns(col_str, HebrewChars) >= 3
    \/ CountRuns(col_str, AsciiLetters) >= 3
    \/ ("U+05D5" \in Range(col_str) /\ CountRuns(col_str, HebrewChars) >= 2)
    \/ has_digit_run(col_str, 7)
    \/ Len(col_str) > 30
    \/ (("|" \in Range(col_str) \/ "," \in Range(col_str)) /\ Len(col_str) > 10)

\* lines 255-303
suspicious_headers(frame) ==
    SelectSeq(frame.columns,
              LAMBDA col : IF col = K_SourceFile THEN FALSE
                           ELSE IF Strip(col) = <<>> THEN FALSE
                           ELSE is_suspicious(Strip(col)))

\* lines 328-333
looks_like_header(val_str, suspicious) ==
    /\ Len(val_str) <= 25
    /\ ~has_digit_run(val_str, 7)
    /\ ~("U+05D5" \in Range(val_str) /\ CountRuns(val_str, HebrewChars) >= 3)
    /\ val_str \notin Range(suspicious)

\* lines 321-339: one entry for every cell with text, the empty string
\* standing for None; a NaN or blank cell adds no entry
potential_headers(current_row, suspicious) ==
    LET cells == SelectSeq(current_row, has_text)
    IN  [k \in 1..Len(cells) |->
            IF looks_like_header(Strip(cells[k]), suspicious) THEN Strip(cells[k]) ELSE <<>>]

header_like_count(potential) == Cardinality({k \in 1..Len(potential) : potential[k] # <<>>})

\* lines 349-357: the name of column i (0-based)
better_column(new_header, i) ==
    IF Truthy(new_header)
    THEN IF Truthy(clean_column_name(new_header)) THEN clean_column_name(new_header)
         ELSE ColumnN(i + 1)
    ELSE ColumnN(i + 1)

\* lines 346-373: zip stops at the shorter of df.columns and potential_headers
promote_to_headers(frame, row_idx, potential) ==
    LET new_columns == [k \in 1..Min(Len(frame.columns), Len(potential)) |->
                           better_column(potential[k], k - 1)]
    IN  IF Len(new_columns) # Len(frame.columns) THEN ValueError
        ELSE [columns |-> new_columns,
              data |-> <<frame.columns>>
                       \o SubSeq(frame.data, 1, row_idx)
                       \o SubSeq(frame.data, row_idx + 2, Len(frame.data))]

\* lines 316-342: the 0-based indices of the first three rows that are mostly
\* header-like
better_header_rows(frame, suspicious) ==
    {row_idx \in 0..(Min(3, Len(frame.data)) - 1) :
        10 * header_like_count(potential_headers(At(frame.data, row_idx), suspicious))
            >= 6 * Len(frame.columns)}

promote_first(frame, suspicious, candidates) ==
    IF candidates = {} THEN frame
    ELSE LET row_idx == CHOOSE r \in candidates : \A q \in candidates : r <= q
         IN  promote_to_headers(frame, row_idx,
                                potential_headers(At(frame.data, row_idx), suspicious))

find_better_headers(frame, suspicious) ==
    IF 10 * Len(suspicious) >= 4 * Len(frame.columns) /\ Len(frame.columns) > 2
    THEN promote_first(frame, suspicious, better_header_rows(frame, suspicious))
    ELSE frame

detect_data_as_headers(frame) ==
    IF Len(frame.data) < 2 THEN frame
    ELSE find_better_headers(frame, suspicious_headers(frame))

\* str(col).strip() in excel_columns
is_excel_column(col) == Len(Strip(col)) = 1 /\ Strip(col)[1] \in UpperSet

\* lines 397-401
is_meaningful_text(val) ==
    IF has_text(val)
    THEN /\ \E i \in 1..Len(Strip(val)) : Strip(val)[i] \in (HebrewChars \cup AsciiLetters)
         /\ Len(Strip(val)) > 1
    ELSE FALSE

\* lines 411-421
excel_new_column(old_col, new_val) ==
    IF has_text(new_val)
    THEN IF Truthy(clean_column_name(Strip(new_val))) THEN clean_column_name(Strip(new_val))
         ELSE old_col
    ELSE old_col

\* lines 385-404
first_row_has_real_headers(frame) ==
    /\ 2 * Cardinality({c \in 1..Len(frame.columns) : is_excel_column(frame.columns[c])})
           > Len(frame.columns)
    /\ Len(frame.columns) > 2
    /\ 10 * Cardinality({c \in 1..Len(frame.columns) : is_meaningful_text(frame.data[1][c])})
           >= 6 * Len(frame.columns)

detect_and_fix_excel_headers(frame) ==
    IF Len(frame.data) < 1 THEN frame
    ELSE IF first_row_has_real_headers(frame)
    THEN [columns |-> [c \in 1..Len(frame.columns) |->
                          excel_new_column(frame.columns[c], frame.data[1][c])],
          \* df.drop(df.index[0])
          data |-> Tail(frame.data)]
    ELSE frame

filter_excel_column_names(frame) ==
    drop_columns(frame, {col \in Range(frame.columns) : is_excel_column(col)})

\* lines 462-487
is_empty_column(frame, col) ==
    IF col = K_SourceFile THEN FALSE
    ELSE IF (StartsWithAt(Strip(col), 1, S_Unnamed) \/ Strip(col) = <<>>)
            /\ non_null_count(frame, col) < 5
    THEN TRUE
    ELSE IF Len(Strip(col)) = 0 THEN TRUE
    ELSE /\ \/ (Len(Strip(col)) = 1 /\ IsDigit(Strip(col)))
            \/ Strip(col) \in {<<"1">>, <<"2">>, <<"3">>, <<"4">>, <<"5">>}
         /\ non_null_count(frame, col) < 10

filter_empty_columns(frame) ==
    drop_columns(frame, {col \in Range(frame.columns) : is_empty_column(frame, col)})

\* lines 648-652
meaningful_values(frame, col) ==
    Cardinality({r \in 1..Len(frame.data) : has_text(frame.data[r][column_index(frame, col)])})

\* lines 643-659
is_low_quality(frame, col) ==
    IF col = K_SourceFile THEN FALSE
    ELSE \/ (Len(frame.data) > 100 /\ 20 * meaningful_values(frame, col) < Len(frame.data))
         \/ meaningful_values(frame, col) < 3

filter_low_quality_columns(frame) ==
    drop_columns(frame, {col \in Range(frame.columns) : is_low_quality(frame, col)})

(***************************************************************************)
(* column_normalizer.py: fix_misplaced_id_data (lines 502-571), the        *)
(* default column mapping (lines 24-129), find_matching_columns (lines     *)
(* 200-247) and the rest of normalize_dataframe (lines 698-838) with       *)
(* post_process_id_fields (lines 870-923).                                 *)
(***************************************************************************)
S_EmployeeNumber == <<"E", "m", "p", "l", "o", "y", "e", "e", " ", "N", "u", "m", "b", "e", "r">>
S_SerialNumber == <<"S", "e", "r", "i", "a", "l", " ", "N", "u", "m", "b", "e", "r">>
S_MilitaryID == <<"M", "i", "l", "i", "t", "a", "r", "y", " ", "I", "D">>
S_PhoneNumber == <<"P", "h", "o", "n", "e", " ", "N", "u", "m", "b", "e", "r">>
S_Phone == <<"P", "h", "o", "n", "e">>
S_TitlePosition == <<"T", "i", "t", "l", "e", "/", "P", "o", "s", "i", "t", "i", "o", "n">>
S_DateOfBirth == <<"D", "a", "t", "e", " ", "o", "f", " ", "B", "i", "r", "t", "h">>
S_Nationality == <<"N", "a", "t", "i", "o", "n", "a", "l", "i", "t", "y">>
S_ProductDescription == <<"P", "r", "o", "d", "u", "c", "t", " ", "D", "e", "s", "c", "r", "i", "p", "t", "i", "o", "n">>
S_Quantity == <<"Q", "u", "a", "n", "t", "i", "t", "y">>
S_Price == <<"P", "r", "i", "c", "e">>
S_SupplyDate == <<"S", "u", "p", "p", "l", "y", " ", "D", "a", "t", "e">>
S_Balance == <<"B", "a", "l", "a", "n", "c", "e">>
S_Signature == <<"S", "i", "g", "n", "a", "t", "u", "r", "e">>

\* line 514
id_data_columns ==
    {S_ID, S_EmployeeNumber, S_SerialNumber, S_MilitaryID, S_PhoneNumber, S_Phone, K_SourceFile}

\* how many of the values are made of lo..hi digits once stripped
count_digit_values(values, lo, hi) ==
    Cardinality({k \in 1..Len(values) : match_digits(Strip(values[k]), lo, hi)})

\* lines 517-543: the target column of a misplaced ID column, <<>> for a
\* column that is left alone
misplaced_target(sample_values) ==
    IF Len(sample_values) = 0 THEN <<>>
    ELSE IF /\ 10 * count_digit_values(sample_values, 7, 10) >= 6 * Len(sample_values)
            /\ count_digit_values(sample_values, 7, 10) >= 3
    THEN IF /\ count_digit_values(sample_values, 7, 8) > count_digit_values(sample_values, 9, 9)
            /\ 10 * count_digit_values(sample_values, 7, 8) >= 6 * Len(sample_values)
         THEN <<S_MilitaryID>>
         ELSE <<S_ID>>
    ELSE <<>>

\* lines 513-543: the <<col, target_type>> pairs in column order
problematic_columns(frame) ==
    LET candidates == SelectSeq(frame.columns, LAMBDA col : col \notin id_data_columns)
        targets == [k \in 1..Len(candidates) |->
                       <<candidates[k],
                         misplaced_target(head(dropna(column(frame, candidates[k])), 20))>>]
    IN  [k \in 1..Len(SelectSeq(targets, LAMBDA e : e[2] # <<>>)) |->
            <<SelectSeq(targets, LAMBDA e : e[2] # <<>>)[k][1],
              SelectSeq(targets, LAMBDA e : e[2] # <<>>)[k][2][1]>>]

\* (a variant that moves the value whatever the target cell holds)
merge_misplaced_row_overwrites(frame, row, col, target_type) ==
    LET misplaced_id == row[column_index(frame, col)]
    IN  IF /\ notna(misplaced_id)
           /\ match_digits(Strip(misplaced_id), 7, 10)
        THEN [c \in 1..Len(row) |->
                 IF c = column_index(frame, target_type) THEN Strip(misplaced_id)
                 ELSE IF c = column_index(frame, col) THEN NaN
                 ELSE row[c]]
        ELSE row

\* lines 557-565: one row of the merge of column col into target_type
merge_misplaced_row(frame, row, col, target_type) ==
    LET current_id == row[column_index(frame, target_type)]
        misplaced_id == row[column_index(frame, col)]
    IN  IF /\ notna(misplaced_id)
           /\ match_digits(Strip(misplaced_id), 7, 10)
           /\ ~has_text(current_id)
        THEN [c \in 1..Len(row) |->
                 IF c = column_index(frame, target_type) THEN Strip(misplaced_id)
                 ELSE IF c = column_index(frame, col) THEN NaN
                 ELSE row[c]]
        ELSE row

\* lines 552-569
fix_problematic_column(frame, col, target_type) ==
    IF has_column(frame, target_type)
    THEN [columns |-> frame.columns,
          data |-> [r \in 1..Len(frame.data) |->
                       merge_misplaced_row(frame, frame.data[r], col, target_type)]]
    ELSE rename_column(frame, col, target_type)

\* lines 549-569: the DataFrame after the first n problematic columns
RECURSIVE fix_problematic_columns(_, _, _)
fix_problematic_columns(frame, problematic, n) ==
    IF n = 0 THEN frame
    ELSE fix_problematic_column(fix_problematic_columns(frame, problematic, n - 1),
                                problematic[n][1], problematic[n][2])

fix_misplaced_id_data(frame) ==
    fix_problematic_columns(frame, problematic_columns(frame), Len(problematic_columns(frame)))

\* lines 24-129: the default configuration, in the order of the dict
column_mapping ==
    <<
     <<<<"I", "D">>,
       <<<<"P", "a", "s", "s", "p", "o", "r", "t", "/", " ", "I", "D">>,
         <<"U+05DE", "U+05E1", "U+05E4", "U+05E8", " ", "U+05EA", ".", "U+05D6">>,
         <<"U+05EA", "U+05D6">>,
         <<"U+05EA", "U+05F4", "U+05D6">>,
         <<"U+05EA", ".", " ", "U+05D6">>,
         <<"I", ".", "D", ".">>,
         <<"I", "D">>,
         <<"P", "a", "s", "s", "p", "o", "r", "t">>,
         <<"U+05EA", ".", "U+05D6">>,
         <<"U+05DE", "U+05E1", "U+05E4", "U+05E8", " ", "U+05D6", "U+05D4", "U+05D5", "U+05EA">>,
         <<"U+05EA", "U+05E2", "U+05D5", "U+05D3", "U+05EA", " ", "U+05D6", "U+05D4", "U+05D5", "U+05EA">>,
         <<"U+05EA", ".", "U+05D6", ".">>>>>>,
     <<<<"F", "i", "r", "s", "t", " ", "N", "a", "m", "e">>,
       <<<<"F", "i", "r", "s", "t", " ", "N", "a", "m", "e">>,
         <<"U+05E9", "U+05DD", " ", "U+05E4", "U+05E8", "U+05D8", "U+05D9">>,
         <<"U+05E9", "U+05DD", " ", "U+05DE", "U+05DC", "U+05D0">>,
         <<"F", "i", "r", "s", "t", " ", "N", "a", "m", "e", "\n", ":", "s", "e", "l", "e", "c", "t", "e", "d", ":">>,
         <<"U+05E9", "U+05DD">>,
         <<"U+05E4", "U+05E8", "U+05D8", "U+05D9">>,
         <<"S", "t", "u", "d", "e", "n", "t", " ", "N", "a", "m", "e">>>>>>,
     <<<<"L", "a", "s", "t", " ", "N", "a", "m", "e">>,
       <<<<"L", "a", "s", "t", " ", "N", "a", "m", "e">>,
         <<"U+05E9", "U+05DD", " ", "U+05DE", "U+05E9", "U+05E4", "U+05D7", "U+05D4">>,
         <<"U+05DE", "U+05E9", "U+05E4", "U+05D7", "U+05D4">>,
         <<"s", "u", "r", "n", "a", "m", "e">>>>>>,
     <<<<"E", "m", "p", "l", "o", "y", "e", "e", " ", "N", "u", "m", "b", "e", "r">>,
       <<<<"U+05DE", "U+05E1", "U+05E4", "U+05E8", " ", "U+05E2", "U+05D5", "U+05D1", "U+05D3", ".", " ", "U+05EA">>,
         <<"U+05DE", "U+05E1", "U+05E4", "U+05E8", " ", "U+05E2", "U+05D5", "U+05D1", "U+05D3">>,
         <<"E", "m", "p", "l", "o", "y", "e", "e", " ", "I", "D">>,
         <<"U+05E2", "U+05D5", "U+05D1", "U+05D3">>>>>>,
     <<<<"S", "i", "g", "n", "a", "t", "u", "r", "e">>,
       <<<<"U+05D7", "U+05EA", "U+05D9", "U+05DE", "U+05D4">>,
         <<"S", "i", "g", "n", "a", "t", "u", "r", "e">>,
         <<"S", "i", "g", "n">>>>>>,
     <<<<"T", "i", "t", "l", "e", "/", "P", "o", "s", "i", "t", "i", "o", "n">>,
       <<<<"T", "i", "t", "l", "e", "\n", "(", "P", "o", "s", "i", "t", "i", "o", "n", "/", " ", "J", "o", "b", " ", "d", "e", "s", "c", "r", "i", "p", "t", "i", "o", "n", ")">>,
         <<"T", "i", "t", "l", "e">>,
         <<"P", "o", "s", "i", "t", "i", "o", "n">>,
         <<"J", "o", "b">>,
         <<"U+05EA", "U+05E4", "U+05E7", "U+05D9", "U+05D3">>>>>>,
     <<<<"D", "a", "t", "e", " ", "o", "f", " ", "B", "i", "r", "t", "h">>,
       <<<<"D", "O", "B", "\n", "(", "m", "m", "/", "d", "d", "/", "y", "y", "y", "y", ")">>,
         <<"D", "O", "B">>,
         <<"D", "a", "t", "e", " ", "o", "f", " ", "B", "i", "r", "t", "h">>,
         <<"U+05EA", "U+05D0", "U+05E8", "U+05D9", "U+05DA", " ", "U+05DC", "U+05D9", "U+05D3", "U+05D4">>>>>>,
     <<<<"N", "a", "t", "i", "o", "n", "a", "l", "i", "t", "y">>,
       <<<<"N", "a", "t", "i", "o", "n", "a", "l", "i", "t", "y">>,
         <<"U+05DC", "U+05D0", "U+05D5", "U+05DD">>,
         <<"U+05D0", "U+05D6", "U+05E8", "U+05D7", "U+05D5", "U+05EA">>>>>>,
     <<<<"P", "r", "o", "d", "u", "c", "t", " ", "D", "e", "s", "c", "r", "i", "p", "t", "i", "o", "n">>,
       <<<<"U+05EA", "U+05D0", "U+05D5", "U+05E8", " ", "U+05DE", "U+05D5", "U+05E6", "U+05E8">>,
         <<"P", "r", "o", "d", "u", "c", "t">>,
         <<"D", "e", "s", "c", "r", "i", "p", "t", "i", "o", "n">>,
         <<"U+05DE", "U+05D5", "U+05E6", "U+05E8">>>>>>,
     <<<<"Q", "u", "a", "n", "t", "i", "t", "y">>,
       <<<<"U+05DB", "U+05DE", "U+05D5", "U+05EA">>,
         <<"Q", "u", "a", "n", "t", "i", "t", "y">>,
         <<"A", "m", "o", "u", "n", "t">>>>>>,
     <<<<"P", "r", "i", "c", "e">>,
       <<<<"U+05DE", "U+05D7", "U+05D9", "U+05E8", " ", "U+05DC", "U+05D9", "U+05D7", "U+05D9", "U+05D3", "U+05D4">>,
         <<"U+05E1", "U+05D4", "U+05F4", "U+05DB", " ", "U+05DE", "U+05D7", "U+05D9", "U+05E8">>,
         <<"P", "r", "i", "c", "e">>,
         <<"T", "o", "t", "a", "l">>,
         <<"U+05DE", "U+05D7", "U+05D9", "U+05E8">>>>>>,
     <<<<"S", "u", "p", "p", "l", "y", " ", "D", "a", "t", "e">>,
       <<<<"U+05EA", ".", " ", "U+05D0", "U+05E1", "U+05E4", "U+05E7", "U+05D4">>,
         <<"S", "u", "p", "p", "l", "y", " ", "D", "a", "t", "e">>,
         <<"U+05EA", "U+05D0", "U+05E8", "U+05D9", "U+05DA", " ", "U+05D0", "U+05E1", "U+05E4", "U+05E7", "U+05D4">>>>>>,
     <<<<"R", "o", "w", " ", "N", "u", "m", "b", "e", "r">>,
       <<<<"U+05E9", "U+05D5", "U+05E8", "U+05D4">>,
         <<"R", "o", "w">>,
         <<"L", "i", "n", "e">>,
         <<"I", "n", "d", "e", "x">>,
         <<"U+05DE", "U+05E1", "U+05E4", "U+05E8">>,
         <<"#">>,
         <<"N", "u", "m", "b", "e", "r">>>>>>,
     <<<<"B", "a", "l", "a", "n", "c", "e">>,
       <<<<"U+05D9", "U+05EA", "U+05E8", "U+05D4", " ", "U+05DC", "U+05D0", "U+05E1", "U+05E4", "U+05E7", "U+05D4">>,
         <<"B", "a", "l", "a", "n", "c", "e">>,
         <<"R", "e", "m", "a", "i", "n", "i", "n", "g">>,
         <<"U+05D9", "U+05EA", "U+05E8", "U+05D4">>>>>>,
     <<<<"P", "h", "o", "n", "e", " ", "N", "u", "m", "b", "e", "r">>,
       <<<<"P", "h", "o", "n", "e">>,
         <<"U+05D8", "U+05DC", "U+05E4", "U+05D5", "U+05DF">>,
         <<"U+05E0", "U+05D9", "U+05D9", "U+05D3">>,
         <<"M", "o", "b", "i", "l", "e">>,
         <<"P", "h", "o", "n", "e", " ", "N", "u", "m", "b", "e", "r">>,
         <<"U+05DE", "U+05E1", "U+05E4", "U+05E8", " ", "U+05D8", "U+05DC", "U+05E4", "U+05D5", "U+05DF">>>>>>
    >>

\* the variants as line 223 and 227 compare them: cleaned and lower-cased
variants_lower ==
    [k \in 1..Len(column_mapping) |->
        [j \in 1..Len(column_mapping[k][2]) |->
            Lower(clean_column_name(column_mapping[k][2][j]))]]

\* lines 229-239
matches_variant(col_lower, variant_lower) ==
    \/ col_lower = variant_lower
    \/ /\ Contains(variant_lower, col_lower) \/ Contains(col_lower, variant_lower)
       /\ Min(Len(col_lower), Len(variant_lower)) > 2

\* lines 207-239: col is found for entry k of the mapping
matches_entry(col, k) ==
    \/ col \in Range(column_mapping[k][2])
    \/ clean_column_name(col) \in Range(column_mapping[k][2])
    \/ \E j \in 1..Len(variants_lower[k]) :
           matches_variant(Lower(clean_column_name(col)), variants_lower[k][j])

find_matching_columns(df_columns) ==
    LET found == [k \in 1..Len(column_mapping) |->
                     <<column_mapping[k][1],
                       SelectSeq(df_columns, LAMBDA col : matches_entry(col, k))>>]
    IN  SelectSeq(found, LAMBDA e : e[2] # <<>>)

\* the value of a string of digits.  Python's integers are unbounded; a value
\* of more than nine digits is given as 1000000000, which the comparisons of
\* lines 727-730 (v[0] + i, 5 and 100) tell apart from no other value above
\* 100 (the inputs hold no negative number of that size)
RECURSIVE digits_value(_)
digits_value(s) ==
    IF s = <<>> THEN 0
    ELSE IF Len(LStripChars(s, {"0"})) > 9 THEN 1000000000
    ELSE 10 * digits_value(SubSeq(s, 1, Len(s) - 1))
         + ((CHOOSE d \in 1..10 : DecimalDigits[d] = s[Len(s)]) - 1)

\* int(s) for a stripped s: <<n>>, or <<>> where int raises ValueError
int_of(s) ==
    LET signed == s # <<>> /\ s[1] \in {"+", "-"}
        body == IF signed THEN Tail(s) ELSE s
        well_formed ==
            /\ body # <<>>
            /\ \A i \in 1..Len(body) : body[i] \in (Digits \cup {"_"})
            /\ body[1] # "_" /\ body[Len(body)] # "_"
            /\ \A i \in 1..(Len(body) - 1) : ~(body[i] = "_" /\ body[i + 1] = "_")
    IN  IF well_formed
        THEN <<(IF signed /\ s[1] = "-" THEN -1 ELSE 1) * digits_value(Without(body, {"_"}))>>
        ELSE <<>>

\* lines 718-724
values_list(sample_values) ==
    LET parsed == SelectSeq([k \in 1..Len(sample_values) |-> int_of(Strip(sample_values[k]))],
                            LAMBDA p : p # <<>>)
    IN  [k \in 1..Len(parsed) |-> parsed[k][1]]

\* lines 726-732
looks_like_row_numbers(vals) ==
    /\ Len(vals) >= 3
    /\ \A i \in 1..Len(vals) : vals[i] = vals[1] + (i - 1)
    /\ vals[1] <= 5
    /\ \A i \in 1..Len(vals) : vals[i] <= 100

\* lines 715-747: the category a column found under both ID and Row Number
\* keeps; a column without values stays under both
conflict_category(sample_values) ==
    IF Len(sample_values) = 0 THEN "both"
    ELSE IF looks_like_row_numbers(values_list(sample_values)) THEN "Row Number"
    ELSE IF 10 * Cardinality({k \in 1..Len(sample_values) : Len(Strip(sample_values[k])) >= 7})
                >= 8 * Len(sample_values)
    THEN "ID"
    ELSE "Row Number"

column_category(frame, col) == conflict_category(head(dropna(column(frame, col)), 10))

\* lines 702-747
resolve_id_row_number(frame, found) ==
    IF DictHas(found, S_ID) /\ DictHas(found, S_RowNumber)
    THEN [k \in 1..Len(found) |->
             IF found[k][1] = S_ID
             THEN <<S_ID,
                    SelectSeq(found[k][2],
                              LAMBDA col : ~(/\ col \in Range(DictGet(found, S_RowNumber))
                                             /\ column_category(frame, col) = "Row Number"))>>
             ELSE IF found[k][1] = S_RowNumber
             THEN <<S_RowNumber,
                    SelectSeq(found[k][2],
                              LAMBDA col : ~(/\ col \in Range(DictGet(found, S_ID))
                                             /\ column_category(frame, col) = "ID"))>>
             ELSE found[k]]
    ELSE found

\* ' | '.join(values)
RECURSIVE JoinBar(_)
JoinBar(values) ==
    IF values = <<>> THEN <<>>
    ELSE IF Len(values) = 1 THEN values[1]
    ELSE values[1] \o <<" ", "|", " ">> \o JoinBar(Tail(values))

\* list(set(values)): the distinct values, in an order that depends on the
\* hash seed of the run
unique_values(values) ==
    {p \in [1..Cardinality(Range(values)) -> Range(values)] :
        \A i, j \in 1..Cardinality(Range(values)) : i # j => p[i] # p[j]}

\* lines 770-774: the stripped texts of row r in the existing columns
row_values(frame, existing_columns, r) ==
    LET cells == SelectSeq([k \in 1..Len(existing_columns) |->
                               frame.data[r][column_index(frame, existing_columns[k])]],
                           has_text)
    IN  [k \in 1..Len(cells) |-> Strip(cells[k])]

\* lines 776-784: what merged_series can hold for these values
merged_cells(values) ==
    IF values = <<>> THEN {NaN}
    ELSE {JoinBar(p) : p \in unique_values(values)}

\* lines 769-784: merged_series for the first n rows; equal lists of values
\* give equal cells within one run
RECURSIVE merged_series(_, _, _)
merged_series(frame, existing_columns, n) ==
    IF n = 0 THEN {<<>>}
    ELSE LET values == row_values(frame, existing_columns, n)
             same == {m \in 1..(n - 1) : row_values(frame, existing_columns, m) = values}
         IN  UNION {{Append(s, c) :
                        c \in (IF same = {} THEN merged_cells(values)
                               ELSE {s[CHOOSE m \in same : TRUE]})} :
                    s \in merged_series(frame, existing_columns, n - 1)}

\* df[name] = series
set_column(frame, name, series) ==
    IF has_column(frame, name)
    THEN [columns |-> frame.columns,
          data |-> [r \in 1..Len(frame.data) |->
                       [c \in 1..Len(frame.columns) |->
                           IF c = column_index(frame, name) THEN series[r]
                           ELSE frame.data[r][c]]]]
    ELSE [columns |-> Append(frame.columns, name),
          data |-> [r \in 1..Len(frame.data) |-> Append(frame.data[r], series[r])]]

\* lines 764-793
merge_found_columns(frame, normalized_name, existing_columns) ==
    {set_column(drop_columns(frame, Range(existing_columns) \ {normalized_name}),
                normalized_name, series) :
        series \in merged_series(frame, existing_columns, Len(frame.data))}

\* lines 753-803: one entry of matches
normalize_columns(frame, normalized_name, found_columns) ==
    IF Len(found_columns) > 1
    THEN merge_found_columns(frame, normalized_name,
                             SelectSeq(found_columns, LAMBDA col : has_column(frame, col)))
    ELSE IF Len(found_columns) = 1
    THEN IF found_columns[1] # normalized_name
         THEN {rename_column(frame, found_columns[1], normalized_name)}
         ELSE {frame}
    ELSE {frame}

\* lines 752-803: the DataFrames the loop can leave after n entries of matches
RECURSIVE merge_matches(_, _, _)
merge_matches(frame, found, n) ==
    IF n = 0 THEN {frame}
    ELSE UNION {normalize_columns(f, found[n][1], found[n][2]) :
                   f \in merge_matches(frame, found, n - 1)}

\* lines 811-816
preferred_order ==
    <<S_ID, S_FirstName, S_LastName, S_EmployeeNumber, S_TitlePosition, S_DateOfBirth,
      S_Nationality, S_PhoneNumber, S_ProductDescription, S_Quantity, S_Price,
      S_SupplyDate, S_RowNumber, S_Balance, S_Signature>>

\* lines 806-825
column_order(frame) ==
    LET first == IF has_column(frame, K_SourceFile) THEN <<K_SourceFile>> ELSE <<>>
        preferred == SelectSeq(preferred_order,
                               LAMBDA col : has_column(frame, col) /\ col # K_SourceFile)
    IN  first \o preferred
        \o SelectSeq(frame.columns,
                     LAMBDA col : col # K_SourceFile /\ col \notin Range(preferred_order))

\* lines 805-828
reorder_columns(frame) == select_columns(frame, column_order(frame))

\* lines 885-894
is_long_employee_number(emp_num) ==
    IF notna(emp_num)
    THEN /\ Len(Strip(emp_num)) > 7
         /\ \/ IsDigit(Strip(emp_num))
            \/ (Strip(emp_num)[1] = "A" /\ Len(Strip(emp_num)) <= 12)
            \/ /\ "/" \in Range(Strip(emp_num))
               /\ Len(SelectSeq(Strip(emp_num), LAMBDA c : c \in Digits)) >= 7
    ELSE FALSE

\* lines 906-909
is_invalid_id(current_id_str) ==
    \/ Len(current_id_str) < 6
    \/ " " \in Range(current_id_str)
    \/ Range(current_id_str) \cap {"/", "(", ")", "'", ",", "j", "H", "O", "D", "S", "N"} # {}
    \/ Range(current_id_str) \cap Digits = {}

\* (a variant that replaces the ID although it looks valid)
post_process_row_overwrites_valid_id(frame, row) ==
    LET emp_num == row[column_index(frame, S_EmployeeNumber)]
    IN  IF is_long_employee_number(emp_num)
        THEN [c \in 1..Len(row) |->
                 IF c = column_index(frame, S_ID) THEN Strip(emp_num)
                 ELSE IF c = column_index(frame, S_EmployeeNumber) THEN NaN
                 ELSE row[c]]
        ELSE row

\* lines 880-914: one row
post_process_row(frame, row) ==
    LET emp_num == row[column_index(frame, S_EmployeeNumber)]
        current_id == row[column_index(frame, S_ID)]
    IN  IF is_long_employee_number(emp_num)
           /\ (IF has_text(current_id) THEN is_invalid_id(Strip(current_id)) ELSE TRUE)
        THEN [c \in 1..Len(row) |->
                 IF c = column_index(frame, S_ID) THEN Strip(emp_num)
                 ELSE IF c = column_index(frame, S_EmployeeNumber) THEN NaN
                 ELSE row[c]]
        ELSE row

post_process_id_fields(frame) ==
    IF ~has_column(frame, S_EmployeeNumber) \/ ~has_column(frame, S_ID) THEN frame
    ELSE [columns |-> frame.columns,
          data |-> [r \in 1..Len(frame.data) |-> post_process_row(frame, frame.data[r])]]

\* lines 678-681; ValueError when detect_data_as_headers raises
detect_headers(frame) == detect_data_as_headers(filter_data_promoted_columns(frame))

\* lines 684-696
filter_columns(frame) ==
    fix_misplaced_id_data(
        filter_low_quality_columns(
            filter_empty_columns(
                filter_excel_column_names(
                    detect_and_fix_excel_headers(frame)))))

\* lines 699-747
match_columns(frame) == resolve_id_row_number(frame, find_matching_columns(frame.columns))

\* lines 752-831: what the merge, the reorder and the post-processing can
\* make of the filtered DataFrame
merge_and_reorder(frame) ==
    {post_process_id_fields(reorder_columns(merged)) :
        merged \in merge_matches(frame, match_columns(frame), Len(match_columns(frame)))}

\* the DataFrames normalize_dataframe can return for df; {ValueError} when it
\* raises
normalize_dataframe(frame) ==
    IF detect_headers(frame) = ValueError THEN {ValueError}
    ELSE merge_and_reorder(filter_columns(detect_headers(frame)))

(***************************************************************************)
(* Specification of the column normaliser: normalize_dataframe is run,     *)
(* stage by stage, on a DataFrame as create_excel_output builds it: the    *)
(* Source File column first, one row for every record.                     *)
(***************************************************************************)
MaxFrameRows == 4

N_Notes == <<"N", "o", "t", "e", "s">>
N_DanaLeviCohen == <<"D", "a", "n", "a", " ", "L", "e", "v", "i", " ", "C", "o", "h", "e", "n">>
N_Ref == <<"r", "e", "f", " ", "1", "2", "3", "4", "5", "6", "7", "8">>
N_EmployeeID == <<"E", "m", "p", "l", "o", "y", "e", "e", " ", "I", "D">>
N_he_number == <<"U+05DE", "U+05E1", "U+05E4", "U+05E8">>

\* the column names after Source File: spreadsheet letters; canonical names;
\* two variants of ID; an ID and an employee number; names that are data
\* content, around a digit; a variant of Row Number that is found under ID
\* too; a name that is an ID
NormalizeColumns ==
    {<<<<"A">>, <<"B">>, <<"C">>>>,
     <<H_First, H_Last, H_ID>>,
     <<H_he_first, H_he_tz, H_ID>>,
     <<H_ID, N_Notes, N_EmployeeID>>,
     <<N_DanaLeviCohen, <<"1">>, N_Ref>>,
     <<H_he_first, H_Last, N_he_number>>,
     <<L_Id9b, H_First, H_Last>>}

\* the cells of a record: header texts, a person, a person without an ID
NormalizeRecords ==
    {<<H_First, H_Last, H_ID>>,
     <<<<"D", "a", "n", "a">>, <<"L", "e", "v", "i">>, L_Id9b>>,
     <<<<"N", "o", "a">>, <<"K", "a", "t", "z">>, NaN>>}

\* a two-column table under spreadsheet letters, loaded without a Source
\* File column (test_excel_headers.py line 27): the first two cells of the
\* records
LetterTableFrames ==
    {[columns |-> <<<<"A">>, <<"B">>>>,
      data |-> [r \in 1..Len(recs) |-> SubSeq(recs[r], 1, 2)]] :
        recs \in SeqsUpTo(NormalizeRecords, MaxFrameRows)}

\* pd.DataFrame(all_rows) with Source File first: record r comes from file
\* r; and the two-column tables
NormalizeFrames ==
    {[columns |-> <<K_SourceFile>> \o cols,
      data |-> [r \in 1..Len(recs) |-> <<FileName(r)>> \o recs[r]]] :
        cols \in NormalizeColumns, recs \in SeqsUpTo(NormalizeRecords, MaxFrameRows)}
    \cup LetterTableFrames

InitNormalize ==
    /\ pc = "normalize"
    /\ df \in NormalizeFrames
    /\ df_normalized = None
    /\ matches = <<>>
    /\ result = None
    /\ files = <<>>
    /\ processed_files = <<>>
    /\ all_rows = <<>>
    /\ tables = <<>>
    /\ table = None
    /\ headers = <<>>
    /\ rows = <<>>
    /\ header_row_idx = 0
    /\ result_folders = NoResultFiles

\* lines 675-678
FilterDataPromotedColumns ==
    /\ pc = "normalize"
    /\ df_normalized' = filter_data_promoted_columns(df)
    /\ pc' = "detect_data_as_headers"
    /\ UNCHANGED <<files, tables, headers, rows, header_row_idx, table, result,
                   processed_files, all_rows, df, matches,
                   result_folders>>

\* line 681; the ValueError of line 365 leaves normalize_dataframe
DetectDataAsHeaders ==
    /\ pc = "detect_data_as_headers"
    /\ IF detect_data_as_headers(df_normalized) = ValueError
       THEN /\ result' = ValueError
            /\ pc' = "raised"
            /\ UNCHANGED df_normalized
       ELSE /\ df_normalized' = detect_data_as_headers(df_normalized)
            /\ pc' = "detect_and_fix_excel_headers"
            /\ UNCHANGED result
    /\ UNCHANGED <<files, tables, headers, rows, header_row_idx, table,
                   processed_files, all_rows, df, matches,
                   result_folders>>

\* line 684
DetectAndFixExcelHeaders ==
    /\ pc = "detect_and_fix_excel_headers"
    /\ df_normalized' = detect_and_fix_excel_headers(df_normalized)
    /\ pc' = "filter_excel_column_names"
    /\ UNCHANGED <<files, tables, headers, rows, header_row_idx, table, result,
                   processed_files, all_rows, df, matches,
                   result_folders>>

\* line 687
FilterExcelColumnNames ==
    /\ pc = "filter_excel_column_names"
    /\ df_normalized' = filter_excel_column_names(df_normalized)
    /\ pc' = "filter_empty_columns"
    /\ UNCHANGED <<files, tables, headers, rows, header_row_idx, table, result,
                   processed_files, all_rows, df, matches,
                   result_folders>>

\* line 690
FilterEmptyColumns ==
    /\ pc = "filter_empty_columns"
    /\ df_normalized' = filter_empty_columns(df_normalized)
    /\ pc' = "filter_low_quality_columns"
    /\ UNCHANGED <<files, tables, headers, rows, header_row_idx, table, result,
                   processed_files, all_rows, df, matches,
                   result_folders>>

\* line 693
FilterLowQualityColumns ==
    /\ pc = "filter_low_quality_columns"
    /\ df_normalized' = filter_low_quality_columns(df_normalized)
    /\ pc' = "fix_misplaced_id_data"
    /\ UNCHANGED <<files, tables, headers, rows, header_row_idx, table, result,
                   processed_files, all_rows, df, matches,
                   result_folders>>

\* line 696
FixMisplacedIdData ==
    /\ pc = "fix_misplaced_id_data"
    /\ df_normalized' = fix_misplaced_id_data(df_normalized)
    /\ pc' = "find_matching_columns"
    /\ UNCHANGED <<files, tables, headers, rows, header_row_idx, table, result,
                   processed_files, all_rows, df, matches,
                   result_folders>>

\* lines 699-747
FindMatchingColumns ==
    /\ pc = "find_matching_columns"
    /\ matches' = match_columns(df_normalized)
    /\ pc' = "merge"
    /\ UNCHANGED <<files, tables, headers, rows, header_row_idx, table, result,
                   processed_files, all_rows, df, df_normalized,
                   result_folders>>

\* lines 752-803
MergeColumns ==
    /\ pc = "merge"
    /\ df_normalized' \in merge_matches(df_normalized, matches, Len(matches))
    /\ pc' = "reorder"
    /\ UNCHANGED <<files, tables, headers, rows, header_row_idx, table, result,
                   processed_files, all_rows, df, matches,
                   result_folders>>

\* lines 805-828
ReorderNormalizedColumns ==
    /\ pc = "reorder"
    /\ df_normalized' = reorder_columns(df_normalized)
    /\ pc' = "post_process_id_fields"
    /\ UNCHANGED <<files, tables, headers, rows, header_row_idx, table, result,
                   processed_files, all_rows, df, matches,
                   result_folders>>

\* lines 831-838
PostProcessIdFields ==
    /\ pc = "post_process_id_fields"
    /\ df_normalized' = post_process_id_fields(df_normalized)
    /\ pc' = "returned"
    /\ UNCHANGED <<files, tables, headers, rows, header_row_idx, table, result,
                   processed_files, all_rows, df, matches,
                   result_folders>>

NextNormalize ==
    \/ FilterDataPromotedColumns
    \/ DetectDataAsHeaders
    \/ DetectAndFixExcelHeaders
    \/ FilterExcelColumnNames
    \/ FilterEmptyColumns
    \/ FilterLowQualityColumns
    \/ FixMisplacedIdData
    \/ FindMatchingColumns
    \/ MergeColumns
    \/ ReorderNormalizedColumns
    \/ PostProcessIdFields

SpecNormalize == InitNormalize /\ [][NextNormalize]_vars

\* the stages compose to normalize_dataframe
StagesAreNormalizeDataframe ==
    /\ pc = "returned" => df_normalized \in normalize_dataframe(df)
    /\ pc = "raised" => normalize_dataframe(df) = {ValueError}

\* the column names stay distinct
ColumnsStayDistinct ==
    df_normalized # None =>
        \A c, d \in 1..Len(df_normalized.columns) :
            c # d => df_normalized.columns[c] # df_normalized.columns[d]

(***************************************************************************)
(* Claims about normalize_dataframe (checked under SpecNormalize).         *)
(***************************************************************************)
\* C10: normalize_dataframe never drops a row: whichever stages fire, the
\* DataFrame it returns has as many rows as the DataFrame it was given.
C10_NeverDropsARow ==
    pc = "returned" => Len(df_normalized.data) = Len(df.data)

(***************************************************************************)
(* Specification of the whole run: main processes every document,          *)
(* create_excel_output collects the corpus records and normalize_dataframe *)
(* normalizes them (batch_ocr_processor.py lines 844-871, 611-754).        *)
(***************************************************************************)
MaxDocs == 4

\* what the OCR step can make of a document of the corpus: a failure, no
\* table, a table with a header row and one person
CorpusOutcomes ==
    {[ocr_ok |-> FALSE, tables |-> <<>>],
     [ocr_ok |-> TRUE, tables |-> <<>>],
     [ocr_ok |-> TRUE, tables |-> <<TableOf(<<R_Header, R_IdJohnDoe>>)>>]}

CorpusFiles ==
    UNION {{[k \in 1..n |-> [filename |-> FileName(k), ocr_ok |-> o[k].ocr_ok, tables |-> o[k].tables]] :
               o \in [1..n -> CorpusOutcomes]} : n \in 1..MaxDocs}

InitCorpus ==
    /\ pc = "main"
    /\ files \in CorpusFiles
    /\ processed_files = <<>>
    /\ all_rows = <<>>
    /\ df = None
    /\ df_normalized = None
    /\ matches = <<>>
    /\ tables = <<>>
    /\ table = None
    /\ result = None
    /\ headers = <<>>
    /\ rows = <<>>
    /\ header_row_idx = 0
    /\ result_folders = NoResultFiles

NextCorpus == NextBatch \/ NextNormalize

SpecCorpus == InitCorpus /\ [][NextCorpus]_vars

(***************************************************************************)
(* Claims about the error records (checked under SpecCorpus).              *)
(***************************************************************************)
\* the normalized output has a row of the file with a non-empty Error cell
HasErrorRow(frame, filename) ==
    /\ has_column(frame, K_SourceFile)
    /\ has_column(frame, K_Error)
    /\ \E r \in 1..Len(frame.data) :
          /\ frame.data[r][column_index(frame, K_SourceFile)] = filename
          /\ has_text(frame.data[r][column_index(frame, K_Error)])

\* C11: every document whose processing ended in an error outcome appears in
\* the normalized output as a row with its Source File value and a non-empty
\* Error marker, however few documents failed.
C11_ErrorMarkersSurvive ==
    pc = "returned"
        => \A k \in 1..Len(processed_files) :
              "error" \in DOMAIN processed_files[k]
                  => HasErrorRow(df_normalized, processed_files[k].filename)

(***************************************************************************)
(* Claims about the merge of matched columns (checked under                *)
(* SpecNormalize).                                                         *)
(***************************************************************************)
\* the distinct values in the order of the source columns
RECURSIVE distinct_in_order(_)
distinct_in_order(values) ==
    IF values = <<>> THEN <<>>
    ELSE LET before == distinct_in_order(SubSeq(values, 1, Len(values) - 1))
             last == values[Len(values)]
         IN  IF last \in Range(before) THEN before ELSE Append(before, last)

\* empty for no value, the value for one distinct value, else the distinct
\* values joined in the order of the source columns
ordered_cell(values) ==
    IF values = <<>> THEN NaN ELSE JoinBar(distinct_in_order(values))

ordered_series(frame, existing_columns) ==
    [r \in 1..Len(frame.data) |-> ordered_cell(row_values(frame, existing_columns, r))]

\* one entry of matches, merged in the order of the source columns
ordered_entry(frame, normalized_name, found_columns, existing_columns) ==
    IF Len(found_columns) > 1
    THEN set_column(drop_columns(frame, Range(existing_columns) \ {normalized_name}),
                    normalized_name, ordered_series(frame, existing_columns))
    ELSE CHOOSE f \in normalize_columns(frame, normalized_name, found_columns) : TRUE

RECURSIVE ordered_merge(_, _, _)
ordered_merge(frame, found, n) ==
    IF n = 0 THEN frame
    ELSE ordered_entry(ordered_merge(frame, found, n - 1), found[n][1], found[n][2],
                       SelectSeq(found[n][2],
                                 LAMBDA col : has_column(ordered_merge(frame, found, n - 1), col)))

\* C12: when several columns are matched to one canonical name, the merged
\* cell of a row is empty if no source cell is non-empty, the single value
\* if the non-empty source cells are equal, else the distinct values joined
\* with " | " in the order of the source columns; the source columns are
\* removed.
C12_MergedInColumnOrder ==
    [][MergeColumns => df_normalized' = ordered_merge(df_normalized, matches, Len(matches))]_vars

(***************************************************************************)
(* Specification of post_process_id_fields (column_normalizer.py lines     *)
(* 870-923): it is applied to a DataFrame df whose Employee Number and ID  *)
(* cells are drawn from the cases of lines 885-909.                        *)
(***************************************************************************)
MaxPostRows == 2

\* Employee Number cells: missing; 7 and 8 digits; 8 digits in blanks; an
\* A-code of 8 and of 13 characters; a slashed number with 8 digits and one
\* with 5; a word
PostEmployeeNumbers ==
    {NaN,
     <<"1", "2", "3", "4", "5", "6", "7">>,
     <<"1", "2", "3", "4", "5", "6", "7", "8">>,
     <<" ", "1", "2", "3", "4", "5", "6", "7", "8", " ">>,
     <<"A", "1", "2", "3", "4", "5", "6", "7">>,
     <<"A", "1", "2", "3", "4", "5", "6", "7", "8", "9", "0", "1", "2">>,
     <<"0", "2", "/", "9", "1", "1", "4", "9", "0">>,
     <<"a", "b", "/", "1", "2", "3", "4", "5">>,
     <<"E", "n", "g", "i", "n", "e", "e", "r">>}

\* ID cells: missing; blank; a valid ID; too short; with a space; without a
\* digit; with a letter O
PostIds ==
    {NaN,
     <<" ">>,
     <<"9", "8", "7", "6", "5", "4", "3", "2", "1">>,
     <<"1", "2", "3", "4", "5">>,
     <<"1", "2", " ", "3", "4", "5", "6">>,
     <<"a", "b", "c", "d", "e", "f", "g">>,
     <<"1", "2", "3", "4", "5", "6", "O">>}

\* the column layouts after Source File
PostColumns ==
    {<<S_EmployeeNumber, S_ID>>, <<S_ID, S_EmployeeNumber>>, <<S_ID, S_FirstName>>,
     <<S_EmployeeNumber, S_FirstName>>}

PostRecords == {<<emp_num, current_id>> : emp_num \in PostEmployeeNumbers, current_id \in PostIds}

\* the records after the first one
PostMoreRecords ==
    {<<<<"1", "2", "3", "4", "5", "6", "7", "8">>, NaN>>,
     <<<<"1", "2", "3", "4", "5", "6", "7", "8">>, <<"9", "8", "7", "6", "5", "4", "3", "2", "1">>>>,
     <<<<"A", "1", "2", "3", "4", "5", "6", "7">>, <<"1", "2", "3", "4", "5">>>>}

PostRecordLists ==
    UNION {{<<first>> \o more : first \in PostRecords, more \in [1..n -> PostMoreRecords]} :
              n \in 0..(MaxPostRows - 1)}

\* the cells of a record under the column layout: the first cell of the
\* record under Employee Number (else under First Name), the second under ID
\* (else under First Name)
PostRow(cols, rec) ==
    [c \in 1..Len(cols) |->
        IF cols[c] = S_EmployeeNumber THEN rec[1]
        ELSE IF cols[c] = S_ID THEN rec[2]
        ELSE IF S_EmployeeNumber \in Range(cols) THEN rec[2] ELSE rec[1]]

PostFrames ==
    {[columns |-> <<K_SourceFile>> \o cols,
      data |-> [r \in 1..Len(recs) |-> <<FileName(r)>> \o PostRow(cols, recs[r])]] :
        cols \in PostColumns, recs \in PostRecordLists}

InitPostProcess ==
    /\ pc = "post_process_id_fields"
    /\ df \in PostFrames
    /\ df_normalized = df
    /\ matches = <<>>
    /\ result = None
    /\ files = <<>>
    /\ processed_files = <<>>
    /\ all_rows = <<>>
    /\ tables = <<>>
    /\ table = None
    /\ headers = <<>>
    /\ rows = <<>>
    /\ header_row_idx = 0
    /\ result_folders = NoResultFiles

NextPostProcess == PostProcessIdFields

SpecPostProcess == InitPostProcess /\ [][NextPostProcess]_vars

(***************************************************************************)
(* Claims about post_process_id_fields (checked under SpecPostProcess).    *)
(***************************************************************************)
\* the trimmed Employee Number is longer than 7 characters and is all
\* digits, or an A-code of at most 12 characters, or has a slash and at
\* least 7 digits
LooksLikeAnId(text) ==
    /\ Len(text) > 7
    /\ \/ \A k \in 1..Len(text) : text[k] \in Digits
       \/ text[1] = "A" /\ Len(text) <= 12
       \/ /\ \E k \in 1..Len(text) : text[k] = "/"
          /\ Cardinality({k \in 1..Len(text) : text[k] \in Digits}) >= 7

\* the ID is shorter than 6, has a space, has an OCR-garbage character or
\* has no digit
LooksInvalid(text) ==
    \/ Len(text) < 6
    \/ \E k \in 1..Len(text) : text[k] = " "
    \/ \E k \in 1..Len(text) :
          text[k] \in {"/", "(", ")", "'", ",", "j", "H", "O", "D", "S", "N"}
    \/ \A k \in 1..Len(text) : text[k] \notin Digits

\* the Employee Number of the row is to be moved into its ID
IsMoved(emp_num, current_id) ==
    /\ emp_num # NaN
    /\ LooksLikeAnId(Strip(emp_num))
    /\ \/ current_id = NaN
       \/ Strip(current_id) = <<>>
       \/ LooksInvalid(Strip(current_id))

\* row r of the output against row r of the input
RowIsPostProcessed(r, emp_column, id_column) ==
    IF IsMoved(df.data[r][emp_column], df.data[r][id_column])
    THEN /\ df_normalized.data[r][id_column] = Strip(df.data[r][emp_column])
         /\ df_normalized.data[r][emp_column] = NaN
         /\ \A c \in 1..Len(df.columns) :
               c \notin {emp_column, id_column} => df_normalized.data[r][c] = df.data[r][c]
    ELSE df_normalized.data[r] = df.data[r]

\* C13: with both an Employee Number and an ID column, post_process_id_fields
\* acts row by row: an Employee Number that is longer than 7 characters and
\* all digits, an A-code of at most 12 characters or a slashed number with at
\* least 7 digits is copied into ID, and cleared, when the ID is empty or
\* looks invalid; every other row is unchanged, so a valid-looking ID is
\* never overwritten. Without one of the two columns nothing changes.
C13_PostProcessIdFields ==
    pc = "returned"
        => /\ df_normalized.columns = df.columns
           /\ Len(df_normalized.data) = Len(df.data)
           /\ IF has_column(df, S_EmployeeNumber) /\ has_column(df, S_ID)
              THEN \A r \in 1..Len(df.data) :
                      RowIsPostProcessed(r, column_index(df, S_EmployeeNumber),
                                         column_index(df, S_ID))
              ELSE df_normalized = df

\* the scenario: "02/911490" with an empty ID is moved into ID, next to a row
\* whose valid ID is kept
C13_Witness ==
    /\ pc = "returned"
    /\ has_column(df, S_EmployeeNumber) /\ has_column(df, S_ID)
    /\ Len(df.data) = 2
    /\ df.data[1][column_index(df, S_EmployeeNumber)] = <<"0", "2", "/", "9", "1", "1", "4", "9", "0">>
    /\ df.data[1][column_index(df, S_ID)] = NaN
    /\ df_normalized.data[1][column_index(df, S_ID)] = <<"0", "2", "/", "9", "1", "1", "4", "9", "0">>
    /\ df_normalized.data[1][column_index(df, S_EmployeeNumber)] = NaN
    /\ df.data[2][column_index(df, S_ID)] = <<"9", "8", "7", "6", "5", "4", "3", "2", "1">>
    /\ df_normalized.data[2] = df.data[2]

(***************************************************************************)
(* Claims about the spreadsheet-letter stages (checked under               *)
(* SpecNormalize).                                                         *)
(***************************************************************************)
\* more than 50% of the column names are single letters A-Z and at least 60%
\* of the columns hold meaningful text in row 0
LettersOverRealHeaders(frame) ==
    /\ Len(frame.data) >= 1
    /\ 2 * Cardinality({c \in 1..Len(frame.columns) :
                           /\ Len(Strip(frame.columns[c])) = 1
                           /\ Strip(frame.columns[c])[1] \in UpperSet})
           > Len(frame.columns)
    /\ 10 * Cardinality({c \in 1..Len(frame.columns) : is_meaningful_text(frame.data[1][c])})
           >= 6 * Len(frame.columns)

\* row 0 of before is gone from the data of after
RowZeroPromoted(before, after) ==
    /\ after.data = Tail(before.data)
    /\ Len(after.columns) = Len(before.columns)

\* C14 (promotion): whenever more than 50% of the column names are single
\* spreadsheet letters and at least 60% of the columns hold meaningful text
\* in row 0, the spreadsheet-letter header stage promotes row 0 to the header
\* row and removes it from the data.
C14_LetterHeadersPromoted ==
    [][DetectAndFixExcelHeaders
          => (LettersOverRealHeaders(df_normalized)
                 => RowZeroPromoted(df_normalized, df_normalized'))]_vars

\* C14 (removal): after the spreadsheet-letter stages no column whose
\* trimmed name is a single letter A-Z is left, up to and including the
\* output.
C14_NoLetterColumnRemains ==
    pc \in {"filter_empty_columns", "filter_low_quality_columns", "fix_misplaced_id_data",
            "find_matching_columns", "merge", "reorder", "post_process_id_fields", "returned"}
        => \A c \in 1..Len(df_normalized.columns) :
              ~(/\ Len(Strip(df_normalized.columns[c])) = 1
                /\ Strip(df_normalized.columns[c])[1] \in UpperSet)

(***************************************************************************)
(* Claims about the column order of the output (checked under              *)
(* SpecNormalize).                                                         *)
(***************************************************************************)
\* the place of a column name in the fixed preferred order; the names that
\* are not in it come last
PreferredRank(col) ==
    IF col \in Range(preferred_order)
    THEN CHOOSE k \in 1..Len(preferred_order) : preferred_order[k] = col
    ELSE Len(preferred_order) + 1

\* after the first column: the canonical columns in the preferred order,
\* then the other columns, those of the input in the order of the input
PreferredThenEncounterOrder(columns, input_columns) ==
    \A c, d \in 2..Len(columns) :
        c < d => /\ PreferredRank(columns[c]) <= PreferredRank(columns[d])
                 /\ \A i, j \in 1..Len(input_columns) :
                       /\ columns[c] \notin Range(preferred_order)
                       /\ columns[d] \notin Range(preferred_order)
                       /\ input_columns[i] = columns[c]
                       /\ input_columns[j] = columns[d]
                       => i < j

\* the first column is Source File and holds the source value of every row
SourceFileFirstAndIntact(frame, input) ==
    /\ Len(frame.columns) >= 1
    /\ frame.columns[1] = K_SourceFile
    /\ Len(frame.data) = Len(input.data)
    /\ \A r \in 1..Len(input.data) :
          frame.data[r][1] = input.data[r][column_index(input, K_SourceFile)]

\* C15: for every input with a Source File column the output has Source File
\* as its first column with every row's source value intact, then the
\* canonical columns present in the fixed preferred order, then all other
\* columns in encounter order, also when a header-promotion stage fires.
C15_SourceFileFirstThenPreferred ==
    (pc = "returned" /\ has_column(df, K_SourceFile))
        => /\ SourceFileFirstAndIntact(df_normalized, df)
           /\ PreferredThenEncounterOrder(df_normalized.columns, df.columns)

(***************************************************************************)
(* Claims about rows longer than the header row (checked under             *)
(* SpecExtract).                                                           *)
(***************************************************************************)
\* cell i (0-based) of the row is in the reordered row, under the header
\* Column_(i+1)
KeptUnderColumnN(reordered_row, hdrs, row, i) ==
    \E p \in 1..Len(reordered_row) :
        /\ p <= Len(hdrs)
        /\ hdrs[p] = ColumnN(i + 1)
        /\ reordered_row[p] = At(row, i)

\* C16: no cell of a data row is lost because the row is longer than the
\* header row: in the reorder of extract_final_table, cell i beyond the
\* header count is kept and appears under the synthesized name Column_(i+1)
\* (the data rows are the rows after the header row).
C16_ExtraCellsKept ==
    (pc = "done" /\ header_row_idx # -1)
        => \A r \in (header_row_idx + 2)..Len(rows) :
              \A i \in Len(headers)..(Len(rows[r]) - 1) :
                  KeptUnderColumnN(result.rows[r], result.reordered_headers, rows[r], i)

(***************************************************************************)
(* Specification of the ID / Row Number conflict (column_normalizer.py     *)
(* lines 699-747): find_matching_columns and the conflict resolution are   *)
(* applied to a DataFrame that has passed the column filters, with a       *)
(* column whose name is a variant of both ID and Row Number.               *)
(***************************************************************************)
MaxConflictRows == 4

N_SlashedId == <<"0", "2", "/", "9", "1", "1", "4", "9", "0">>

\* the cells of the column: row numbers, an ID, a slashed ID, a name, a
\* missing value
ConflictCells == {<<"1">>, <<"2">>, <<"3">>, L_Id9b, N_SlashedId, L_Mendelovich, NaN}

ConflictColumns == {<<N_he_number, H_First>>}

\* filter_low_quality_columns has left only columns with 3 or more
\* meaningful values, and fix_misplaced_id_data no column of ID-like values
\* under another name
ConflictFrames ==
    {frame \in
        {[columns |-> <<K_SourceFile>> \o cols,
          data |-> [r \in 1..Len(cells) |->
                       <<FileName(r), cells[r]>>
                       \o (IF Len(cols) = 2 THEN <<L_Dov>> ELSE <<>>)]] :
            cols \in ConflictColumns,
            cells \in UNION {[1..n -> ConflictCells] : n \in 3..MaxConflictRows}} :
        /\ ~is_low_quality(frame, N_he_number)
        /\ fix_misplaced_id_data(frame) = frame}

InitConflict ==
    /\ pc = "find_matching_columns"
    /\ df \in ConflictFrames
    /\ df_normalized = df
    /\ matches = <<>>
    /\ result = None
    /\ files = <<>>
    /\ processed_files = <<>>
    /\ all_rows = <<>>
    /\ tables = <<>>
    /\ table = None
    /\ headers = <<>>
    /\ rows = <<>>
    /\ header_row_idx = 0
    /\ result_folders = NoResultFiles

NextConflict == FindMatchingColumns

SpecConflict == InitConflict /\ [][NextConflict]_vars

(***************************************************************************)
(* Claims about the ID / Row Number conflict (checked under SpecConflict). *)
(***************************************************************************)
\* the columns found under the canonical name; none if it has no entry
FoundUnder(found, name) == IF DictHas(found, name) THEN Range(DictGet(found, name)) ELSE {}

\* the integer values are sequential, start at most at 5 and do not exceed
\* 100
SequentialRowNumbers(vals) ==
    /\ vals # <<>>
    /\ \A i \in 1..Len(vals) : vals[i] = vals[1] + (i - 1)
    /\ vals[1] <= 5
    /\ \A i \in 1..Len(vals) : vals[i] <= 100

\* the number of digits of a value
DigitCount(val) == Cardinality({k \in 1..Len(val) : val[k] \in Digits})

\* the category the column is to end under
ClaimedCategory(sample_values) ==
    IF SequentialRowNumbers(values_list(sample_values)) THEN S_RowNumber
    ELSE IF 10 * Cardinality({k \in 1..Len(sample_values) : DigitCount(sample_values[k]) >= 7})
                >= 8 * Len(sample_values)
    THEN S_ID
    ELSE S_RowNumber

\* C17: a column matched under both the ID and the Row Number variants ends
\* under exactly one of them: Row Number if its sampled integer values are
\* sequential, start at most at 5 and do not exceed 100; otherwise ID if at
\* least 80% of the sampled values have 7 or more digits; otherwise Row
\* Number.
C17_ConflictResolved ==
    pc = "merge"
        => LET found == find_matching_columns(df_normalized.columns)
           IN  \A col \in FoundUnder(found, S_ID) \cap FoundUnder(found, S_RowNumber) :
                  /\ (col \in FoundUnder(matches, S_ID))
                        <=> ClaimedCategory(head(dropna(column(df_normalized, col)), 10)) = S_ID
                  /\ (col \in FoundUnder(matches, S_RowNumber))
                        <=> ClaimedCategory(head(dropna(column(df_normalized, col)), 10)) = S_RowNumber

\* C17 (one category): after the conflict resolution no column is listed
\* under both ID and Row Number.
C17_NeverUnderBoth ==
    pc = "merge" => FoundUnder(matches, S_ID) \cap FoundUnder(matches, S_RowNumber) = {}

(***************************************************************************)
(* Claims about the column-count mismatch repair of detect_table_structure *)
(* (checked under SpecExtract).                                            *)
(***************************************************************************)
\* lines 106-114: the repair rebuilds the headers (more than 2 rows, row 1
\* wider than row 0)
mismatch_repaired(rs) == Len(rs) > 2 /\ Len(rs[2]) > Len(rs[1])

\* the row passes for a header row: header vocabulary in it, or is_header_row
LooksLikeAHeader(row) == has_header_like_content(row) \/ is_header_row(row)

\* C18: in the column-count mismatch repair the original row 0 is never
\* discarded unless it looks like a header: a row 0 that does not look like
\* a header is padded with '' to the data column count and kept as the first
\* data row under the rebuilt headers, so the rebuilt row list has one more
\* row than the input.
C18_RowZeroKeptAsData ==
    (/\ pc \in {"transposed", "reorder"}
     /\ mismatch_repaired(table.rows)
     /\ ~LooksLikeAHeader(table.rows[1]))
        => /\ Len(rows) = Len(table.rows) + 1
           /\ rows[1] = headers
           /\ rows[2] = PadTo(table.rows[1], Len(table.rows[2]))


\* the rows the repair puts under the rebuilt headers: the rows after row 0,
\* with the padded row 0 before them when it is kept
RowsAfterRepair(rs) == {Tail(rs), <<PadTo(rs[1], Len(rs[2]))>> \o Tail(rs)}

\* row r of the result is the row of the list in the new column order
ReorderedFrom(reordered_row, row, order) ==
    /\ Len(reordered_row) = Len(order)
    /\ \A k \in 1..Len(order) :
          reordered_row[k] = IF order[k] < Len(row) THEN row[order[k] + 1] ELSE <<>>

\* C19: detect_table_structure leaves its rows argument unchanged on every
\* path except the column-count mismatch repair; on that path it replaces
\* the caller's row list in place with [rebuilt headers] followed by the
\* data rows and returns index 0 with the rebuilt headers, and
\* extract_final_table then reorders that replaced row list, not the
\* original one. What it returns and writes is a function of the rows given.
C19_RowsReplacedOnlyByRepair ==
    /\ pc \in {"transposed", "reorder", "done"} =>
          /\ <<header_row_idx, headers, rows>> =
                 LET detected == detect_table_structure(table.rows)
                 IN  <<detected.idx, detected.headers, detected.rows>>
          /\ IF mismatch_repaired(table.rows)
             THEN /\ header_row_idx = 0
                  /\ Len(headers) = Len(table.rows[2])
                  /\ \E data_rows \in RowsAfterRepair(table.rows) :
                         rows = <<headers>> \o data_rows
             ELSE rows = table.rows
    /\ (pc = "done" /\ header_row_idx # -1) =>
          /\ Len(result.rows) = Len(rows)
          /\ \A r \in 1..Len(rows) : ReorderedFrom(result.rows[r], rows[r], result.new_order)

\* C19 witness: a table went through the repair and was reordered: the
\* result starts with the rebuilt headers in the new order, not with the
\* original row 0
C19_Witness ==
    /\ pc = "done"
    /\ header_row_idx = 0
    /\ mismatch_repaired(table.rows)
    /\ rows # table.rows
    /\ result.rows[1] = result.reordered_headers
    /\ result.rows[1] # project_row(table.rows[1], result.new_order)


(***************************************************************************)
(* The header row of the repaired table (checked under SpecRepair).        *)
(***************************************************************************)
\* a header row of the repair: the default headers, or 3 header-vocabulary
\* lines
IsRepairHeaderRow(row) ==
    /\ Len(row) = 3
    /\ row = default_headers \/ \A k \in 1..3 : has_keyword(row[k])

\* a 3-cell record anchored at a bare ID
IsRepairRecord(row) == Len(row) = 3 /\ is_bare_id(row[1])

\* C20: whenever repair_collapsed_table_structure returns a table, its row 0
\* is a header row of exactly 3 entries (the first 3 header-vocabulary lines
\* found, or the default [ID, First Name, Last Name]) and every following
\* row is a 3-cell data record; in particular a table whose cells hold
\* ID-anchored records but no header vocabulary is returned with the default
\* headers as row 0.
C20_HeaderRowFirst ==
    (pc = "repaired" /\ result # None)
        => /\ IsRepairHeaderRow(result.rows[1])
           /\ \A r \in 2..Len(result.rows) : IsRepairRecord(result.rows[r])
           /\ (\A r \in 1..Len(table.rows) :
                   header_start(content_lines(Strip(table.rows[r][1]))) = -1)
                  => result.rows[1] = default_headers


(***************************************************************************)
(* Specification of stage 1 alone (column_normalizer.py lines 573-636):    *)
(* filter_data_promoted_columns over tables whose column names lie around  *)
(* the thresholds of the name rule.                                        *)
(***************************************************************************)
N_LongName == <<"A", "d", "d", "i", "t", "i", "o", "n", "a", "l", " ", "n", "o", "t", "e", "s", " ", "a", "n", "d", " ", "r", "e", "m", "a", "r", "k", "s">>
N_VeryLongName == <<"A", "d", "d", "i", "t", "i", "o", "n", "a", "l", " ", "n", "o", "t", "e", "s", " ", "a", "n", "d", " ", "r", "e", "m", "a", "r", "k", "s", " ", "o", "f", " ", "t", "h", "e", " ", "c", "l", "e", "r", "k">>
N_ShortList == <<"N", "o", "t", "e", "s", ",", " ", "e", "t", "c">>
N_LongList == <<"N", "o", "t", "e", "s", ",", " ", "r", "e", "m", "a", "r", "k", "s">>
N_Selected == <<":", "s", "e", "l", "e", "c", "t", "e", "d", ":">>
N_GoodNeutral == <<"G", "o", "o", "d", " ", "N", "e", "u", "t", "r", "a", "l">>
N_Date == <<"1", "2", "/", "0", "5", "/", "2", "0", "2", "0">>

\* column names: texts of 28 and 41 characters, lists of 10 and 14
\* characters, OCR tags, a date, an ID, and header texts
PromotedNames ==
    {N_LongName, N_VeryLongName, N_ShortList, N_LongList, N_Selected, N_GoodNeutral,
     N_Date, L_Id9, H_ID, H_First, N_he_number, N_DanaLeviCohen}

MaxNames == 2

\* Source File and 1..MaxNames distinct column names over one record
PromotedFrames ==
    {[columns |-> <<K_SourceFile>> \o cols,
      data |-> <<<<FileName(1)>> \o [c \in 1..Len(cols) |-> L_Dov]>>] :
        cols \in {s \in SeqsUpTo(PromotedNames, MaxNames) :
                     s # <<>> /\ \A i, j \in 1..Len(s) : s[i] = s[j] => i = j}}

InitPromoted ==
    /\ pc = "normalize"
    /\ df \in PromotedFrames
    /\ df_normalized = None
    /\ matches = <<>>
    /\ result = None
    /\ files = <<>>
    /\ processed_files = <<>>
    /\ all_rows = <<>>
    /\ tables = <<>>
    /\ table = None
    /\ headers = <<>>
    /\ rows = <<>>
    /\ header_row_idx = 0
    /\ result_folders = NoResultFiles

NextPromoted == FilterDataPromotedColumns

SpecPromoted == InitPromoted /\ [][NextPromoted]_vars

\* C21: stage 1 of the normalizer and the Header Classifier agree on every
\* column name: filter_data_promoted_columns drops a column (other than
\* Source File) exactly when is_likely_data returns true for the column's
\* name.
C21_StageOneIsLikelyData ==
    pc = "detect_data_as_headers"
        => \A c \in 2..Len(df.columns) :
               ~has_column(df_normalized, df.columns[c]) <=> is_likely_data(df.columns[c])


(***************************************************************************)
(* Claims about find_matching_columns (checked under SpecConflict).        *)
(***************************************************************************)
\* entry k of the mapping is the one of the canonical name
mapping_index(normalized_name) ==
    CHOOSE k \in 1..Len(column_mapping) : column_mapping[k][1] = normalized_name

\* col is a variant of entry k as it stands, cleaned, or cleaned and lowercased
MatchesExactly(col, k) ==
    \/ col \in Range(column_mapping[k][2])
    \/ clean_column_name(col) \in Range(column_mapping[k][2])
    \/ Lower(clean_column_name(col)) \in Range(variants_lower[k])

\* one of the two strings contains the other, the shorter one has more than
\* 2 characters and at least 70% of the length of the longer one
SignificantContainment(col_lower, variant_lower) ==
    /\ Contains(variant_lower, col_lower) \/ Contains(col_lower, variant_lower)
    /\ Min(Len(col_lower), Len(variant_lower)) > 2
    /\ 10 * Min(Len(col_lower), Len(variant_lower))
           >= 7 * Max(Len(col_lower), Len(variant_lower))

\* C22: find_matching_columns matches a column to a variant by containment
\* (neither exact nor case-insensitive equal) only if the shorter of the two
\* cleaned lowercase strings is longer than 2 characters and covers at least
\* 70% of the longer one.
C22_ContainmentIsSignificant ==
    [][FindMatchingColumns =>
          LET found == find_matching_columns(df_normalized.columns)
          IN  \A e \in 1..Len(found) : \A c \in 1..Len(found[e][2]) :
                  LET k == mapping_index(found[e][1])
                      col == found[e][2][c]
                  IN  \/ MatchesExactly(col, k)
                      \/ \E j \in 1..Len(variants_lower[k]) :
                             SignificantContainment(Lower(clean_column_name(col)),
                                                    variants_lower[k][j])]_vars


\* the canonical names a column is listed under in a match result
NamesOf(found, col) == {found[e][1] : e \in {i \in 1..Len(found) : col \in Range(found[i][2])}}

\* C23: at the moment the merge stage starts, every column of the table is
\* listed under at most one canonical name in the match result: no column is
\* counted under two different canonical names (for any pair of canonical
\* names, not only ID and Row Number).
C23_OneCanonicalNamePerColumn ==
    pc = "merge"
        => \A c \in 1..Len(df_normalized.columns) :
               Cardinality(NamesOf(matches, df_normalized.columns[c])) <= 1


(***************************************************************************)
(* Specification of stage 7 alone (column_normalizer.py lines 502-571):    *)
(* fix_misplaced_id_data over tables with a Notes column of ID-like values *)
(* beside an identity column, or beside none.                              *)
(***************************************************************************)
MaxMisplacedRows == 3

\* the column before Notes: a target column, or a column that is not one
MisplacedFirstColumns == {S_ID, S_MilitaryID, H_First}

\* a row: the file, an empty or filled cell, and a 9-digit ID, a 7-digit ID
\* or a name under Notes
MisplacedRows ==
    {<<FileName(1), first, note>> : first \in {NaN, <<>>, L_Id9}, note \in {L_Id9b, L_Id7, L_Dov}}

MisplacedFrames ==
    {[columns |-> <<K_SourceFile, col, N_Notes>>, data |-> recs] :
        col \in MisplacedFirstColumns,
        recs \in UNION {[1..n -> MisplacedRows] : n \in 3..MaxMisplacedRows}}

InitMisplaced ==
    /\ pc = "fix_misplaced_id_data"
    /\ df \in MisplacedFrames
    /\ df_normalized = df
    /\ matches = <<>>
    /\ result = None
    /\ files = <<>>
    /\ processed_files = <<>>
    /\ all_rows = <<>>
    /\ tables = <<>>
    /\ table = None
    /\ headers = <<>>
    /\ rows = <<>>
    /\ header_row_idx = 0
    /\ result_folders = NoResultFiles

NextMisplaced == FixMisplacedIdData

SpecMisplaced == InitMisplaced /\ [][NextMisplaced]_vars

\* the cell is empty: missing, or blank text
IsEmptyCell(val) == val = NaN \/ Strip(val) = <<>>

\* the cell holds a bare 7-10 digit value
IsIdValue(val) == val # NaN /\ match_digits(Strip(val), 7, 10)

\* in row r the value of column source was moved into the empty cell of the
\* target column
MovedInRow(before, after, r, target, source) ==
    /\ after.columns[target] \in {S_ID, S_MilitaryID}
    /\ IsEmptyCell(before.data[r][target])
    /\ IsIdValue(before.data[r][source])
    /\ after.data[r][target] = Strip(before.data[r][source])
    /\ after.data[r][source] = NaN

\* column c was renamed to a target name that no column had
OnlyRenamed(before, after, c) ==
    /\ after.columns[c] \in {S_ID, S_MilitaryID}
    /\ ~has_column(before, after.columns[c])
    /\ before.columns[c] \notin id_data_columns

\* C24: fix_misplaced_id_data never overwrites a non-empty cell of the
\* target identity column (ID or Military ID): a value is moved only in rows
\* where the target cell is empty and the value matches the 7-10 digit
\* pattern, the moved value is cleared from the source cell, and every other
\* cell of the table is unchanged; when no target column exists the column
\* is only renamed.
C24_OnlyEmptyTargetsFilled ==
    (pc = "find_matching_columns")
        => /\ Len(df_normalized.columns) = Len(df.columns)
           /\ Len(df_normalized.data) = Len(df.data)
           /\ \A c \in 1..Len(df.columns) :
                 df_normalized.columns[c] # df.columns[c] => OnlyRenamed(df, df_normalized, c)
           /\ \A r \in 1..Len(df.data) : \A c \in 1..Len(df.columns) :
                 df_normalized.data[r][c] # df.data[r][c]
                     => \/ \E source \in 1..Len(df.columns) :
                               MovedInRow(df, df_normalized, r, c, source)
                        \/ \E target \in 1..Len(df.columns) :
                               MovedInRow(df, df_normalized, r, target, c)
           /\ (~has_column(df, S_ID) /\ ~has_column(df, S_MilitaryID)
               /\ Len(problematic_columns(df)) = 1)
                  => df_normalized.data = df.data

\* C24 witness: a 9-digit value of Notes was moved into an empty ID cell and
\* cleared, while a row with a filled ID kept both of its cells
C24_Witness ==
    /\ pc = "find_matching_columns"
    /\ df.columns[2] = S_ID
    /\ \E r \in 1..Len(df.data) : MovedInRow(df, df_normalized, r, 2, 3)
    /\ \E r \in 1..Len(df.data) :
          /\ df.data[r][2] = L_Id9
          /\ IsIdValue(df.data[r][3])
          /\ df_normalized.data[r] = df.data[r]

\* C24 witness of the rename: no target column existed, and Notes became ID
\* with every cell as it was
C24_RenameWitness ==
    /\ pc = "find_matching_columns"
    /\ df.columns = <<K_SourceFile, H_First, N_Notes>>
    /\ df_normalized.columns = <<K_SourceFile, H_First, S_ID>>
    /\ df_normalized.data = df.data


(***************************************************************************)
(* Claims about detect_data_as_headers (checked under SpecNormalize).      *)
(***************************************************************************)
\* lines 305-342: the stage finds a row to promote
PromotesARow(frame) ==
    /\ Len(frame.data) >= 2
    /\ 10 * Len(suspicious_headers(frame)) >= 4 * Len(frame.columns)
    /\ Len(frame.columns) > 2
    /\ better_header_rows(frame, suspicious_headers(frame)) # {}

\* the 1-based index of the row the stage promotes
PromotedRowIndex(frame) ==
    1 + (CHOOSE r \in better_header_rows(frame, suspicious_headers(frame)) :
             \A q \in better_header_rows(frame, suspicious_headers(frame)) : r <= q)

\* the name cell i of the promoted row gives column i
NameFromCell(cell, i, suspicious) ==
    IF has_text(cell) /\ looks_like_header(Strip(cell), suspicious)
       /\ Truthy(clean_column_name(Strip(cell)))
    THEN clean_column_name(Strip(cell))
    ELSE ColumnN(i)

\* C25: when detect_data_as_headers promotes a row to headers, the result
\* has the same number of columns and the same number of rows as before, the
\* new name of column i is derived from cell i of the promoted row (or is
\* Column_(i+1) when that cell is empty or not header-like), the former
\* column names are inserted as a data row, and the promoted row is removed;
\* this holds also when the promoted row contains empty cells, and the stage
\* does not raise.
C25_PromotionKeepsShape ==
    [][(DetectDataAsHeaders /\ PromotesARow(df_normalized)) =>
          /\ pc' # "raised"
          /\ Len(df_normalized'.columns) = Len(df_normalized.columns)
          /\ Len(df_normalized'.data) = Len(df_normalized.data)
          /\ \A i \in 1..Len(df_normalized.columns) :
                 df_normalized'.columns[i] =
                     NameFromCell(df_normalized.data[PromotedRowIndex(df_normalized)][i], i,
                                  suspicious_headers(df_normalized))
          /\ df_normalized'.data[1] = df_normalized.columns
          /\ Tail(df_normalized'.data) =
                 SubSeq(df_normalized.data, 1, PromotedRowIndex(df_normalized) - 1)
                 \o SubSeq(df_normalized.data, PromotedRowIndex(df_normalized) + 1,
                           Len(df_normalized.data))]_vars


(***************************************************************************)
(* The header row of the table extract_final_table writes (checked under   *)
(* SpecExtract).                                                           *)
(***************************************************************************)
\* C26: in the table that extract_final_table writes on the non-transposed
\* path, row 0 is the header row that detect_table_structure selected
\* (reordered), and the rows after it are exactly the table's data rows:
\* when the selected header row has index i > 0 the title rows before it are
\* not emitted ahead of it, and when synthetic positional headers are
\* returned they are row 0 of the output rather than the original title row.
C26_HeaderRowIsRowZero ==
    (pc = "done" /\ header_row_idx # -1)
        => /\ result.rows # <<>> => result.rows[1] = result.reordered_headers
           /\ header_row_idx > 0 =>
                 /\ Len(result.rows) = Len(rows) - header_row_idx
                 /\ \A r \in 2..Len(result.rows) :
                        result.rows[r] = project_row(rows[header_row_idx + r], result.new_order)


(***************************************************************************)
(* Every file result in the corpus table (checked under SpecBatch).        *)
(***************************************************************************)
\* the corpus has a row of the file
HasRowOf(filename) ==
    \E r \in 1..Len(all_rows) : DictGet(all_rows[r], K_SourceFile) = filename

\* C27: every file result handed to create_excel_output contributes at least
\* one row to the corpus table: either its data records or a row with its
\* Source File and an Error marker; also a result whose table has a single
\* row, no rows, or whose only data row is consumed as a header row.
C27_EveryFileHasARow ==
    pc \in {"normalize", "no_data"}
        => \A k \in 1..Len(processed_files) : HasRowOf(processed_files[k].filename)


(***************************************************************************)
(* The column order of the reorder is a permutation (checked under         *)
(* SpecExtract: ReorderColumns for extract_final_table, HandleTransposed   *)
(* for process_corrected_table).                                           *)
(***************************************************************************)
\* order lists every index 0..n-1 once
IsPermutation(order, n) ==
    /\ Len(order) = n
    /\ \A i \in 0..(n - 1) : Cardinality({p \in 1..Len(order) : order[p] = i}) = 1

\* out is row with its cells in the places order gives them
IsRearrangement(out, row, order) ==
    /\ Len(out) = Len(row)
    /\ \A p \in 1..Len(order) : out[p] = row[order[p] + 1]

\* rows r of ins with n cells are rearranged in outs
RowsRearranged(outs, ins, order, n) ==
    /\ Len(outs) = Len(ins)
    /\ \A r \in 1..Len(ins) : Len(ins[r]) = n => IsRearrangement(outs[r], ins[r], order)

\* C28: the column order computed by the reorder (in extract_final_table and
\* in process_corrected_table) is a permutation of the header indices
\* 0..len(headers)-1: no column is dropped and none appears twice, so the
\* output has as many rows as the input and every row with exactly
\* len(headers) cells is output as a rearrangement of its own cells.
C28_OrderIsAPermutation ==
    (pc = "done" /\ result # None)
        => IF header_row_idx # -1
           THEN /\ IsPermutation(result.new_order, Len(headers))
                /\ RowsRearranged(result.rows, rows, result.new_order, Len(headers))
           ELSE /\ IsPermutation(result.new_order, Len(table.rows[1]))
                /\ result.rows[1] = result.reordered_headers
                /\ RowsRearranged(Tail(result.rows), table.rows, result.new_order,
                                  Len(table.rows[1]))

\* C28 witness: a table with an ID header that is not in the first place was
\* reordered, and a row of full width came out rearranged
C28_Witness ==
    /\ pc = "done"
    /\ header_row_idx = 0
    /\ Len(headers) = 3
    /\ IsPermutation(result.new_order, 3)
    /\ result.new_order # <<0, 1, 2>>
    /\ \E r \in 2..Len(rows) :
          /\ Len(rows[r]) = 3
          /\ result.rows[r] # rows[r]
          /\ IsRearrangement(result.rows[r], rows[r], result.new_order)

\* C28 witness for process_corrected_table: a headerless table was given
\* synthetic headers and its ID column moved to the front
C28_TransposedWitness ==
    /\ pc = "done"
    /\ header_row_idx = -1
    /\ result # None
    /\ result.new_order[1] # 0
    /\ IsPermutation(result.new_order, Len(table.rows[1]))
    /\ Len(result.rows) = Len(table.rows) + 1


(***************************************************************************)
(* Specification of repeated runs: main processes the same files MaxRuns   *)
(* times, the result folders kept from run to run.  The input folder may    *)
(* hold a scan and a photo of the same name (d1.pdf, d1.png).              *)
(***************************************************************************)
MaxRuns == 2

PhotoName(k) == <<"d", DigitChars[k], ".", "p", "n", "g">>

CacheFileNames == {FileName(k) : k \in 1..MaxFiles} \cup {PhotoName(1)}

\* the files of one run: distinct names, each with what OCR makes of it
RunFiles ==
    UNION {{[k \in 1..n |-> [filename |-> names[k], ocr_ok |-> o[k].ocr_ok, tables |-> o[k].tables]] :
               names \in {ns \in [1..n -> CacheFileNames] :
                             \A i, j \in 1..n : i # j => ns[i] # ns[j]},
               o \in [1..n -> OcrOutcomes]} : n \in 1..MaxFiles}

RECURSIVE Runs(_, _)
Runs(fs, n) == IF n = 0 THEN <<>> ELSE Runs(fs, n - 1) \o fs

InitCache ==
    /\ pc = "main"
    /\ files \in {Runs(fs, MaxRuns) : fs \in RunFiles}
    /\ processed_files = <<>>
    /\ all_rows = <<>>
    /\ df = None
    /\ df_normalized = None
    /\ matches = <<>>
    /\ tables = <<>>
    /\ table = None
    /\ result = None
    /\ headers = <<>>
    /\ rows = <<>>
    /\ header_row_idx = 0
    /\ result_folders = NoResultFiles

NextCache == ProcessSingleFile \/ CollectAllRows

SpecCache == InitCache /\ [][NextCache]_vars

(***************************************************************************)
(* Claims about the cache of OCR results (checked under SpecCache).        *)
(***************************************************************************)
\* call j is the first call on its file
IsFirstCall(j) ==
    \A i \in 1..(j - 1) : processed_files[i].filename # processed_files[j].filename

\* the same error, or table data with the same rows
SameOutcome(a, b) ==
    \/ /\ "error" \in DOMAIN a
       /\ "error" \in DOMAIN b
       /\ a.error = b.error
    \/ /\ "table_data" \in DOMAIN a
       /\ "table_data" \in DOMAIN b
       /\ Len(a.table_data) = Len(b.table_data)
       /\ \A n \in 1..Len(a.table_data) : a.table_data[n].rows = b.table_data[n].rows

\* the number of OCR subprocesses launched for a file
OcrRuns(filename) ==
    Cardinality({n \in 1..Len(result_folders.ocr_runs) : result_folders.ocr_runs[n] = filename})

\* call k is a later call on the file of call j, which filled the cache
LaterCallOnCached(j, k) ==
    /\ j < k
    /\ processed_files[j].filename = processed_files[k].filename
    /\ IsFirstCall(j)
    /\ files[j].ocr_ok

\* C29: once the OCR result of a file is cached, every later
\* process_single_file call on it launches no OCR subprocess and returns the
\* outcome of the call that filled the cache: the same error, or table data
\* with the same rows.
C29_CachedOutcomeRepeats ==
    \A j, k \in 1..Len(processed_files) :
        LaterCallOnCached(j, k)
            => /\ OcrRuns(processed_files[k].filename) = 1
               /\ SameOutcome(processed_files[j], processed_files[k])

\* a later call on a cached file starts no OCR subprocess
C29_NoSecondOcrRun ==
    \A j, k \in 1..Len(processed_files) :
        LaterCallOnCached(j, k) => OcrRuns(processed_files[k].filename) = 1

\* the outcome repeats for every file that shares its stem with no other file
C29_RepeatsWithoutNamesake ==
    \A j, k \in 1..Len(processed_files) :
        (/\ LaterCallOnCached(j, k)
         /\ \A i \in 1..Len(files) :
                stem(files[i].filename) = stem(files[j].filename)
                    => files[i].filename = files[j].filename)
            => SameOutcome(processed_files[j], processed_files[k])

\* a second call returned the cached table data of the first
C29_CachedTableWitness ==
    \E j, k \in 1..Len(processed_files) :
        /\ LaterCallOnCached(j, k)
        /\ "table_data" \in DOMAIN processed_files[k]
        /\ processed_files[k].cached = True
        /\ DictHas(result_folders.json_final, processed_files[k].filename)
        /\ SameOutcome(processed_files[j], processed_files[k])

\* a file whose extraction failed on the first call gets another error on the
\* second call
C29_OtherErrorWitness ==
    \E j, k \in 1..Len(processed_files) :
        /\ LaterCallOnCached(j, k)
        /\ "error" \in DOMAIN processed_files[j]
        /\ processed_files[j].error = E_TableExtractionFailed
        /\ "error" \in DOMAIN processed_files[k]
        /\ processed_files[k].error = E_NoTableDataExtracted

\* no call returns rows rebuilt from the cached cells: table data that comes
\* from the cache is the cached final table
C29_NoRawRowsReturned ==
    \A k \in 1..Len(processed_files) :
        (/\ "table_data" \in DOMAIN processed_files[k]
         /\ processed_files[k].cached # None)
            => \E j \in 1..(k - 1) :
                   /\ processed_files[j].filename = processed_files[k].filename
                   /\ "table_data" \in DOMAIN processed_files[j]
                   /\ processed_files[j].table_data = processed_files[k].table_data


(***************************************************************************)
(* Termination of the table repairer (checked under SpecRepair).           *)
(***************************************************************************)
\* the lines the walk of a row goes over (lines 552 and 589): the lines after
\* the header lines, or all lines of the cell; none for a skipped row
walked_lines(row) ==
    IF row = <<>> \/ ~Truthy(row[1]) THEN <<>>
    ELSE IF header_start(content_lines(Strip(row[1]))) = -1
    THEN content_lines(Strip(row[1]))
    ELSE SubSeq(content_lines(Strip(row[1])),
                header_stop(content_lines(Strip(row[1])),
                            header_start(content_lines(Strip(row[1])))) + 1,
                Len(content_lines(Strip(row[1]))))

\* the lines of all walks over the first n rows, in the order walked
RECURSIVE AllWalkedLines(_, _)
AllWalkedLines(rs, n) ==
    IF n = 0 THEN <<>> ELSE AllWalkedLines(rs, n - 1) \o walked_lines(rs[n])

\* the records of a repaired table: its rows after the header row
EmittedRecords(r) ==
    IF r = None THEN <<>>
    ELSE IF IsRepairHeaderRow(r.rows[1]) THEN Tail(r.rows)
    ELSE r.rows

\* a is b with some entries left out
RECURSIVE IsSubsequence(_, _)
IsSubsequence(a, b) ==
    IF a = <<>> THEN TRUE
    ELSE IF b = <<>> THEN FALSE
    ELSE IF a[1] = b[1] THEN IsSubsequence(Tail(a), Tail(b))
    ELSE IsSubsequence(a, Tail(b))

\* every step of every walk moves on by at least one line
WalkAdvances ==
    \A r \in 1..Len(table.rows) :
        \A i \in 0..(Len(walked_lines(table.rows[r])) - 1) :
            next_idx(walked_lines(table.rows[r]), i) >= i + 1

\* the records start with bare ID lines of the walked lines, one line each,
\* in the order of the lines
OneRecordPerIdLine ==
    /\ \A k \in 1..Len(EmittedRecords(result)) : is_bare_id(EmittedRecords(result)[k][1])
    /\ IsSubsequence([k \in 1..Len(EmittedRecords(result)) |-> EmittedRecords(result)[k][1]],
                     SelectSeq(AllWalkedLines(table.rows, Len(table.rows)), is_bare_id))

\* C30: repair_collapsed_table_structure terminates on every finite table:
\* each step of the ID-anchored walk over a cell's lines advances the line
\* index by at least one, and the walk emits at most one record per line that
\* matches the bare 7-10 digit ID pattern, each record having that ID line as
\* its first field.
C30_WalkTerminates ==
    /\ WalkAdvances
    /\ pc = "repaired" => OneRecordPerIdLine

\* the repair returned two records of a cell in which a row number was
\* skipped between them
C30_Witness ==
    /\ pc = "repaired"
    /\ Len(EmittedRecords(result)) = 2
    /\ \E r \in 1..Len(table.rows) :
           \E i \in 0..(Len(walked_lines(table.rows[r])) - 1) :
               next_idx(walked_lines(table.rows[r]), i) = i + 4

\* the repair went over a line that is no ID and emitted a record later
C30_SkippedLineWitness ==
    /\ pc = "repaired"
    /\ EmittedRecords(result) # <<>>
    /\ ~is_bare_id(AllWalkedLines(table.rows, Len(table.rows))[1])

====
